---- MODULE Spec2Model ----
(***************************************************************************)
(* Update scheduling, rate-limited fetch queue and item store of the       *)
(* mehrwert backend (server/services/itemManager.js, database.js and the   *)
(* queue-based Universalis client, server entry point).                    *)
(*                                                                         *)
(* One action is one run-to-completion turn of the Node.js event loop: a   *)
(* timer callback, or the settlement of a promise together with every      *)
(* continuation (microtask) it wakes up.                                   *)
(***************************************************************************)
EXTENDS Integers, Sequences, FiniteSets, TLC

(***************************************************************************)
(* Bounds of the model                                                     *)
(***************************************************************************)
\* number of entries of the catalog (assets/itemlist.json), ids 1..NumItems
NumItems == 6
\* Date.now() when the process starts (relative clock; lastRequestTime is 0)
StartTime == 2000
\* how many updateItems calls (startup + scheduled passes) may be started
MaxPasses == 2
\* how many requests the callers of the queue on its own may enqueue
MaxRequests == 3
\* how many clock steps of the base delay may be taken
MaxShortTicks == 2
\* how many one-day clock steps may be taken
MaxDayTicks == 1
\* spacing of the unitsSold numbers the classifier is called with, and how
\* many multiples of it they run through
VelocityStep == 250
MaxVelocitySteps == 6

(***************************************************************************)
(* Program constants                                                       *)
(***************************************************************************)
COLD_THRESHOLD == 100
MILD_THRESHOLD == 1000
HOT_UPDATE_INTERVAL == 60 * 1000
MILD_UPDATE_INTERVAL == 60 * 60 * 1000
COLD_UPDATE_INTERVAL == 24 * 60 * 60 * 1000
MAX_ITEMS_PER_CALL == 5
BASE_DELAY_BETWEEN_CALLS_MS == 1000
RANDOM_DELAY_MAX_MS == 500
\* period of the setInterval that runs performScheduledUpdate
SCHEDULE_INTERVAL_MS == 60000

ItemIds == 1 .. NumItems
\* the catalog, in file order
itemList == [k \in 1 .. NumItems |-> k]

Min(a, b) == IF a < b THEN a ELSE b

(***************************************************************************)
(* JavaScript values of the fields the code inspects.  A value is a record *)
(* [t, n]: t is the typeof tag ("undefined", "null", "boolean", "number",  *)
(* "string"); n is the number, the truth value (1/0) or, for a string,     *)
(* what parseFloat makes of it (NaNValue when it is not numeric).          *)
(***************************************************************************)
NaNValue == 0 - 1
JsUndefined == [t |-> "undefined", n |-> 0]
JsNull == [t |-> "null", n |-> 0]
JsTrue == [t |-> "boolean", n |-> 1]
JsFalse == [t |-> "boolean", n |-> 0]
JsBool(b) == IF b THEN JsTrue ELSE JsFalse
JsNum(n) == [t |-> "number", n |-> n]
\* an array of n elements (only its length is modelled)
JsArray(n) == [t |-> "array", n |-> n]
\* the string 'NA' (parseFloat gives NaN)
JsNA == [t |-> "string", n |-> NaNValue]
\* a string holding the decimal digits of n, n >= 0 and n # the value of 'NA'
JsNumStr(n) == [t |-> "string", n |-> n]

\* typeof v === 'number' ? v : parseFloat(v) || 0, for v that passed `v || 0`
ToVelocity(v) ==
  IF v.t = "number" THEN v.n
  ELSE IF v.t = "string" /\ v.n # NaNValue THEN v.n
  ELSE 0

\* JavaScript truthiness of a value (`v || 0`)
Truthy(v) ==
  CASE v.t = "undefined" -> FALSE
    [] v.t = "null" -> FALSE
    [] v.t = "boolean" -> v.n = 1
    [] v.t = "number" -> v.n # 0
    [] v.t = "string" -> TRUE

(***************************************************************************)
(* Classifier                                                              *)
(***************************************************************************)
\* classifyItem with `<=` in the two threshold tests
classifyItemInclusive(marketData) ==
  LET hasActualData ==
        \/ marketData.hasData = JsTrue
        \/ /\ marketData.unitsSold # JsUndefined
           /\ marketData.unitsSold # JsNull
           /\ marketData.unitsSold # JsNA
  IN  IF ~hasActualData THEN "cold"
      ELSE LET unitsSold == IF Truthy(marketData.unitsSold)
                            THEN marketData.unitsSold ELSE JsNum(0)
               velocity == ToVelocity(unitsSold)
           IN  IF velocity <= COLD_THRESHOLD THEN "cold"
               ELSE IF velocity <= MILD_THRESHOLD THEN "mild"
               ELSE "hot"

\* classifyItem without the `|| 0` after parseFloat: the velocity of a
\* string that is not numeric is NaN, which is below no threshold
classifyItemNoDefault(marketData) ==
  LET hasActualData ==
        \/ marketData.hasData = JsTrue
        \/ /\ marketData.unitsSold # JsUndefined
           /\ marketData.unitsSold # JsNull
           /\ marketData.unitsSold # JsNA
  IN  IF ~hasActualData THEN "cold"
      ELSE LET unitsSold == IF Truthy(marketData.unitsSold)
                            THEN marketData.unitsSold ELSE JsNum(0)
               velocity == ToVelocity(unitsSold)
           IN  IF unitsSold.t = "string" /\ unitsSold.n = NaNValue THEN "hot"
               ELSE IF velocity < COLD_THRESHOLD THEN "cold"
               ELSE IF velocity < MILD_THRESHOLD THEN "mild"
               ELSE "hot"

\* marketData is an object (the `!marketData` test is false)
classifyItem(marketData) ==
  LET hasActualData ==
        \/ marketData.hasData = JsTrue
        \/ /\ marketData.unitsSold # JsUndefined
           /\ marketData.unitsSold # JsNull
           /\ marketData.unitsSold # JsNA
  IN  IF ~hasActualData THEN "cold"
      ELSE LET unitsSold == IF Truthy(marketData.unitsSold)
                            THEN marketData.unitsSold ELSE JsNum(0)
               velocity == ToVelocity(unitsSold)
           IN  IF velocity < COLD_THRESHOLD THEN "cold"
               ELSE IF velocity < MILD_THRESHOLD THEN "mild"
               ELSE "hot"

\* getUpdateInterval with the intervals of hot and mild swapped
getUpdateIntervalSwapped(classification) ==
  CASE classification = "hot" -> MILD_UPDATE_INTERVAL
    [] classification = "mild" -> HOT_UPDATE_INTERVAL
    [] classification = "cold" -> COLD_UPDATE_INTERVAL
    [] OTHER -> COLD_UPDATE_INTERVAL

getUpdateInterval(classification) ==
  CASE classification = "hot" -> HOT_UPDATE_INTERVAL
    [] classification = "mild" -> MILD_UPDATE_INTERVAL
    [] classification = "cold" -> COLD_UPDATE_INTERVAL
    [] OTHER -> COLD_UPDATE_INTERVAL

(***************************************************************************)
(* Item store (table items, primary key id).  The store is a function from *)
(* the ids that have a row to the row.                                     *)
(***************************************************************************)
\* SQL NULL in an INTEGER column
NullTime == 0 - 1
EmptyMap == [x \in {} |-> x]

\* JSON.parse(JSON.stringify(obj)) of a market data object: a property whose
\* value is undefined is dropped by stringify and reads as undefined again
\* from the parsed object; null, booleans, finite numbers and strings are
\* kept
deepCopy(marketData) ==
  [f \in DOMAIN marketData |->
     IF marketData[f].t = "undefined" THEN JsUndefined ELSE marketData[f]]

\* strftime('%s', 'now'): the time in whole seconds
UnixSeconds(t) == t \div 1000

\* upsertItem whose DO UPDATE clause leaves out nextUpdate
upsertItemKeepsNextUpdate(db, itemData, t) ==
  LET row == [id |-> itemData.id,
              marketData |-> deepCopy(itemData.marketData),
              classification |-> IF itemData.classification # ""
                                 THEN itemData.classification ELSE "cold",
              lastUpdate |-> IF itemData.lastUpdate # 0
                             THEN itemData.lastUpdate ELSE NullTime,
              nextUpdate |-> IF itemData.id \in DOMAIN db
                             THEN db[itemData.id].nextUpdate
                             ELSE IF itemData.nextUpdate # 0
                                  THEN itemData.nextUpdate ELSE NullTime,
              updatedAt |-> UnixSeconds(t)]
  IN  [x \in (DOMAIN db) \cup {itemData.id} |->
         IF x = itemData.id THEN row ELSE db[x]]

\* upsertItem whose DO UPDATE clause leaves out marketData: the snapshot of
\* the first write stays under the classification and times of the last
upsertItemKeepsMarketData(db, itemData, t) ==
  LET row == [id |-> itemData.id,
              marketData |-> IF itemData.id \in DOMAIN db
                             THEN db[itemData.id].marketData
                             ELSE deepCopy(itemData.marketData),
              classification |-> IF itemData.classification # ""
                                 THEN itemData.classification ELSE "cold",
              lastUpdate |-> IF itemData.lastUpdate # 0
                             THEN itemData.lastUpdate ELSE NullTime,
              nextUpdate |-> IF itemData.nextUpdate # 0
                             THEN itemData.nextUpdate ELSE NullTime,
              updatedAt |-> UnixSeconds(t)]
  IN  [x \in (DOMAIN db) \cup {itemData.id} |->
         IF x = itemData.id THEN row ELSE db[x]]

\* upsertItem whose DO UPDATE clause moves the row's previous nextUpdate
\* into lastUpdate
upsertItemShiftsTimes(db, itemData, t) ==
  LET row == [id |-> itemData.id,
              marketData |-> deepCopy(itemData.marketData),
              classification |-> IF itemData.classification # ""
                                 THEN itemData.classification ELSE "cold",
              lastUpdate |-> IF itemData.id \in DOMAIN db
                             THEN db[itemData.id].nextUpdate
                             ELSE IF itemData.lastUpdate # 0
                                  THEN itemData.lastUpdate ELSE NullTime,
              nextUpdate |-> IF itemData.nextUpdate # 0
                             THEN itemData.nextUpdate ELSE NullTime,
              updatedAt |-> UnixSeconds(t)]
  IN  [x \in (DOMAIN db) \cup {itemData.id} |->
         IF x = itemData.id THEN row ELSE db[x]]

\* INSERT ... ON CONFLICT(id) DO UPDATE at time t: the row of itemData.id is
\* replaced, column by column, by the values of the statement (marketData is
\* kept as JSON text; `classification || 'cold'`, `lastUpdate || null`,
\* `nextUpdate || null`; updatedAt is the time of the statement)
upsertItem(db, itemData, t) ==
  LET row == [id |-> itemData.id,
              marketData |-> deepCopy(itemData.marketData),
              classification |-> IF itemData.classification # ""
                                 THEN itemData.classification ELSE "cold",
              lastUpdate |-> IF itemData.lastUpdate # 0
                             THEN itemData.lastUpdate ELSE NullTime,
              nextUpdate |-> IF itemData.nextUpdate # 0
                             THEN itemData.nextUpdate ELSE NullTime,
              updatedAt |-> UnixSeconds(t)]
  IN  [x \in (DOMAIN db) \cup {itemData.id} |->
         IF x = itemData.id THEN row ELSE db[x]]

getAllItemIds(db) == DOMAIN db

\* ids of `ids` (a sequence) that satisfy Keep, order preserved
RECURSIVE FilterSeq(_, _)
FilterSeq(ids, keep) ==
  IF ids = <<>> THEN <<>>
  ELSE (IF Head(ids) \in keep THEN <<Head(ids)>> ELSE <<>>)
         \o FilterSeq(Tail(ids), keep)

\* dbGetItemsNeedingUpdate with `nextUpdate < ?` in the WHERE clause
dbGetItemsNeedingUpdateStrict(db, t) ==
  LET rows == {x \in DOMAIN db :
                 db[x].nextUpdate # NullTime /\ db[x].nextUpdate < t}
      ofClass(c) == FilterSeq([k \in 1 .. NumItems |-> k],
                              {x \in rows : db[x].classification = c})
  IN  [hot |-> ofClass("hot"), mild |-> ofClass("mild"), cold |-> ofClass("cold")]

\* rows are listed in rowid order; no caller relies on the order
dbGetItemsNeedingUpdate(db, t) ==
  LET rows == {x \in DOMAIN db :
                 db[x].nextUpdate # NullTime /\ db[x].nextUpdate <= t}
      ofClass(c) == FilterSeq([k \in 1 .. NumItems |-> k],
                              {x \in rows : db[x].classification = c})
  IN  [hot |-> ofClass("hot"), mild |-> ofClass("mild"), cold |-> ofClass("cold")]

\* getItemsNeedingUpdate listing the due hot and mild ids among the cold
\* ones as well
getItemsNeedingUpdateColdAgain(db, t) ==
  LET dbItems == dbGetItemsNeedingUpdate(db, t)
      fetchedItemIDs == getAllItemIds(db)
      unfetchedItems == FilterSeq(itemList, ItemIds \ fetchedItemIDs)
  IN  [hot |-> dbItems.hot,
       mild |-> dbItems.mild,
       cold |-> dbItems.hot \o dbItems.mild \o dbItems.cold \o unfetchedItems]

\* getItemsNeedingUpdate that forgets the catalog ids without a row
getItemsNeedingUpdateStoredOnly(db, t) ==
  LET dbItems == dbGetItemsNeedingUpdate(db, t)
  IN  [hot |-> dbItems.hot, mild |-> dbItems.mild, cold |-> dbItems.cold]

\* getItemsNeedingUpdate that adds no more ids without a row than fit one
\* upstream call
getItemsNeedingUpdateCapped(db, t) ==
  LET dbItems == dbGetItemsNeedingUpdate(db, t)
      fetchedItemIDs == getAllItemIds(db)
      unfetchedItems == FilterSeq(itemList, ItemIds \ fetchedItemIDs)
  IN  [hot |-> dbItems.hot,
       mild |-> dbItems.mild,
       cold |-> dbItems.cold
                  \o SubSeq(unfetchedItems, 1,
                            Min(MAX_ITEMS_PER_CALL, Len(unfetchedItems)))]

getItemsNeedingUpdate(db, t) ==
  LET dbItems == dbGetItemsNeedingUpdate(db, t)
      fetchedItemIDs == getAllItemIds(db)
      unfetchedItems == FilterSeq(itemList, ItemIds \ fetchedItemIDs)
  IN  [hot |-> dbItems.hot,
       mild |-> dbItems.mild,
       cold |-> dbItems.cold \o unfetchedItems]

\* the in-memory variant of the item manager (itemDataStore is a Map)
memGetItemsNeedingUpdate(db, t) ==
  LET due == {x \in DOMAIN db : t >= db[x].nextUpdate}
      ofClass(c) == FilterSeq([k \in 1 .. NumItems |-> k],
                              {x \in due : db[x].classification = c})
      unfetchedItems == FilterSeq(itemList, ItemIds \ DOMAIN db)
  IN  [hot |-> ofClass("hot"),
       mild |-> ofClass("mild"),
       cold |-> ofClass("cold") \o unfetchedItems]

(***************************************************************************)
(* processAndStoreItem: classify the fetched market info and upsert it     *)
(***************************************************************************)
\* processAndStoreItem that keeps the classification of a record it finds
processAndStoreItemKeepsTier(db, itemID, marketInfo, t) ==
  LET hasActualData ==
        \/ marketInfo.hasData = JsTrue
        \/ /\ marketInfo.unitsSold # JsUndefined
           /\ marketInfo.unitsSold # JsNull
           /\ marketInfo.unitsSold # JsNA
           /\ marketInfo.unitsSold.t = "number"
      info == [marketInfo EXCEPT !.hasData = JsBool(hasActualData)]
      classification == IF itemID \in DOMAIN db
                        THEN db[itemID].classification
                        ELSE classifyItem(info)
      updateInterval == getUpdateInterval(classification)
      lastUpdate == t
      marketDataCopy == [deepCopy(info) EXCEPT !.hasData = info.hasData]
  IN  upsertItem(db,
                 [id |-> itemID,
                  marketData |-> marketDataCopy,
                  classification |-> classification,
                  lastUpdate |-> lastUpdate,
                  nextUpdate |-> lastUpdate + updateInterval],
                 t)

processAndStoreItem(db, itemID, marketInfo, t) ==
  LET hasActualData ==
        \/ marketInfo.hasData = JsTrue
        \/ /\ marketInfo.unitsSold # JsUndefined
           /\ marketInfo.unitsSold # JsNull
           /\ marketInfo.unitsSold # JsNA
           /\ marketInfo.unitsSold.t = "number"
      info == [marketInfo EXCEPT !.hasData = JsBool(hasActualData)]
      classification == classifyItem(info)
      updateInterval == getUpdateInterval(classification)
      lastUpdate == t
      marketDataCopy == [deepCopy(info) EXCEPT !.hasData = info.hasData]
  IN  upsertItem(db,
                 [id |-> itemID,
                  marketData |-> marketDataCopy,
                  classification |-> classification,
                  lastUpdate |-> lastUpdate,
                  nextUpdate |-> lastUpdate + updateInterval],
                 t)

(***************************************************************************)
(* Batching of updateItems                                                 *)
(***************************************************************************)
\* Slice with an end-inclusive upper index
SliceInclusive(s, from, to) == SubSeq(s, from + 1, Min(to + 1, Len(s)))

\* Array.prototype.slice(from, to) with 0-based, end-exclusive indices
Slice(s, from, to) == SubSeq(s, from + 1, Min(to, Len(s)))

RECURSIVE SplitBatches(_, _)
SplitBatches(itemIDs, i) ==
  IF i < Len(itemIDs)
  THEN <<Slice(itemIDs, i, i + MAX_ITEMS_PER_CALL)>>
         \o SplitBatches(itemIDs, i + MAX_ITEMS_PER_CALL)
  ELSE <<>>

(***************************************************************************)
(* Upstream responses                                                      *)
(***************************************************************************)
\* market infos the upstream may publish for one item
Snapshots ==
  << [hasData |-> JsUndefined, unitsSold |-> JsNum(1500)],
     [hasData |-> JsFalse, unitsSold |-> JsUndefined],
     [hasData |-> JsTrue, unitsSold |-> JsNum(500)],
     [hasData |-> JsTrue, unitsSold |-> JsNum(50)] >>

\* which snapshot an id gets in a multi-item response, rotated by `shift`
SnapshotOf(id, shift) == Snapshots[((id - 1 + shift) % Len(Snapshots)) + 1]
\* the rotations the upstream is let to use
Shifts == 0 .. 1

NoItemId == 0
NoInfo == [hasData |-> JsUndefined, unitsSold |-> JsUndefined]
SeqRange(s) == {s[k] : k \in 1 .. Len(s)}

\* the fetch thunk threw: network error or non-2xx status
Rejected ==
  [ok |-> FALSE, itemID |-> NoItemId, info |-> NoInfo,
   hasItems |-> FALSE, items |-> EmptyMap]
\* single-item shape {itemID, hasData, unitsSold, ...}
SingleItem(id, snap) ==
  [ok |-> TRUE, itemID |-> id, info |-> snap,
   hasItems |-> FALSE, items |-> EmptyMap]
\* multi-item shape {itemIDs, items: {id: {...}}}
MultiItem(present, shift) ==
  [ok |-> TRUE, itemID |-> NoItemId, info |-> NoInfo,
   hasItems |-> TRUE, items |-> [x \in present |-> SnapshotOf(x, shift)]]
\* a 2xx body that has neither shape
Malformed ==
  [ok |-> TRUE, itemID |-> NoItemId, info |-> NoInfo,
   hasItems |-> FALSE, items |-> EmptyMap]

\* what the thunk of a batch may settle with
Outcomes(batch) ==
  {Rejected, Malformed}
    \cup (IF Len(batch) = 1
          THEN {SingleItem(batch[1], Snapshots[k]) : k \in 1 .. Len(Snapshots)}
          ELSE {MultiItem(present, shift) :
                  present \in {SeqRange(batch), SeqRange(batch) \ {batch[1]}},
                  shift \in Shifts})

\* values Math.floor(Math.random() * RANDOM_DELAY_MAX_MS) is drawn from
RandomExtras == {0, RANDOM_DELAY_MAX_MS - 1}

(***************************************************************************)
(* State                                                                   *)
(***************************************************************************)
VARIABLES
  now,           \* Date.now()
  store,         \* table items
  requestQueue,  \* the UniversalisRequestQueue: queue, processing, lastRequestTime
  frames,        \* activations of processQueue that are suspended at an await
                 \* (behind: history, requests left pending by the shift)
  passes,        \* activations of updateItems
  listening,     \* startServer has run
  nextTickAt,    \* when the setInterval timer is due next
  enqueued,      \* history: requests in the order they were pushed
  calls,         \* history: thunks in the order they were started
  lastCall,      \* history: start and end time of the thunk that settled last
  refused,       \* history: id lists fetchMarketData threw on
  returned       \* the call of an exported function made last: arguments, result

vars == <<now, store, requestQueue, frames, passes, listening, nextTickAt,
          enqueued, calls, lastCall, refused, returned>>

\* no exported function has been called from outside yet
NoCall == [fn |-> "none"]

PassIds == 1 .. MaxPasses
UnusedPass == [st |-> "unused", ids |-> <<>>, batches |-> <<>>, i |-> 0, log |-> <<>>]

\* the queue object, the suspended drain loops and the histories, threaded
\* through the synchronous part of a turn
World ==
  [rq |-> requestQueue, frames |-> frames, enq |-> enqueued, calls |-> calls,
   refused |-> refused]

RemoveAt(s, k) == SubSeq(s, 1, k - 1) \o SubSeq(s, k + 1, Len(s))

\* getRandomizedDelay adding the random extra twice
getRandomizedDelayTwice(randomExtra) ==
  BASE_DELAY_BETWEEN_CALLS_MS + randomExtra + randomExtra

getRandomizedDelay(randomExtra) == BASE_DELAY_BETWEEN_CALLS_MS + randomExtra

\* `await requestFn()`: the thunk of frame k is invoked
StartThunk(w, k, t) ==
  [w EXCEPT !.frames[k].pc = "request",
            !.frames[k].startedAt = t,
            !.calls = Append(@, [req |-> w.frames[k].entry.req,
                                 batch |-> w.frames[k].entry.batch,
                                 settled |-> FALSE,
                                 ok |-> FALSE])]

\* WhileLoop with the base delay left out of the required delay
WhileLoopJitterOnly(w, k, t, randomExtra) ==
  IF Len(w.rq.queue) > 0
  THEN LET entry == Head(w.rq.queue)
           w1 == [w EXCEPT !.rq.queue = Tail(@), !.frames[k].entry = entry,
                           !.frames[k].behind = Len(w.rq.queue) - 1]
           timeSinceLastRequest == t - w.rq.lastRequestTime
           requiredDelay == randomExtra
       IN  IF timeSinceLastRequest < requiredDelay
           THEN [w1 EXCEPT !.frames[k].pc = "delay",
                           !.frames[k].wakeAt =
                              t + (requiredDelay - timeSinceLastRequest)]
           ELSE StartThunk(w1, k, t)
  ELSE [w EXCEPT !.rq.processing = FALSE, !.frames = RemoveAt(@, k)]

\* WhileLoop taking the newest request (queue.pop()) instead of the oldest
WhileLoopPop(w, k, t, randomExtra) ==
  IF Len(w.rq.queue) > 0
  THEN LET entry == w.rq.queue[Len(w.rq.queue)]
           w1 == [w EXCEPT !.rq.queue = SubSeq(@, 1, Len(@) - 1),
                           !.frames[k].entry = entry,
                           !.frames[k].behind = Len(w.rq.queue) - 1]
           timeSinceLastRequest == t - w.rq.lastRequestTime
           requiredDelay == getRandomizedDelay(randomExtra)
       IN  IF timeSinceLastRequest < requiredDelay
           THEN [w1 EXCEPT !.frames[k].pc = "delay",
                           !.frames[k].wakeAt =
                              t + (requiredDelay - timeSinceLastRequest)]
           ELSE StartThunk(w1, k, t)
  ELSE [w EXCEPT !.rq.processing = FALSE, !.frames = RemoveAt(@, k)]

\* WhileLoop with `if` in the place of `while`: the loop body runs once
WhileLoopOnce(w, k, t, randomExtra) ==
  IF Len(w.rq.queue) > 0 /\ w.frames[k].pc = "start"
  THEN LET entry == Head(w.rq.queue)
           w1 == [w EXCEPT !.rq.queue = Tail(@), !.frames[k].entry = entry,
                           !.frames[k].behind = Len(w.rq.queue) - 1]
           timeSinceLastRequest == t - w.rq.lastRequestTime
           requiredDelay == getRandomizedDelay(randomExtra)
       IN  IF timeSinceLastRequest < requiredDelay
           THEN [w1 EXCEPT !.frames[k].pc = "delay",
                           !.frames[k].wakeAt =
                              t + (requiredDelay - timeSinceLastRequest)]
           ELSE StartThunk(w1, k, t)
  ELSE [w EXCEPT !.rq.processing = FALSE, !.frames = RemoveAt(@, k)]

\* WhileLoop that leaves `processing` set when it ends
WhileLoopStaysBusy(w, k, t, randomExtra) ==
  IF Len(w.rq.queue) > 0
  THEN LET entry == Head(w.rq.queue)
           w1 == [w EXCEPT !.rq.queue = Tail(@), !.frames[k].entry = entry,
                           !.frames[k].behind = Len(w.rq.queue) - 1]
           timeSinceLastRequest == t - w.rq.lastRequestTime
           requiredDelay == getRandomizedDelay(randomExtra)
       IN  IF timeSinceLastRequest < requiredDelay
           THEN [w1 EXCEPT !.frames[k].pc = "delay",
                           !.frames[k].wakeAt =
                              t + (requiredDelay - timeSinceLastRequest)]
           ELSE StartThunk(w1, k, t)
  ELSE [w EXCEPT !.frames = RemoveAt(@, k)]

\* one pass of the while loop of processQueue, up to its first await
\* (the loop condition is checked; the loop is left when the queue is empty)
WhileLoop(w, k, t, randomExtra) ==
  IF Len(w.rq.queue) > 0
  THEN LET entry == Head(w.rq.queue)
           w1 == [w EXCEPT !.rq.queue = Tail(@), !.frames[k].entry = entry,
                           !.frames[k].behind = Len(w.rq.queue) - 1]
           timeSinceLastRequest == t - w.rq.lastRequestTime
           requiredDelay == getRandomizedDelay(randomExtra)
       IN  IF timeSinceLastRequest < requiredDelay
           THEN [w1 EXCEPT !.frames[k].pc = "delay",
                           !.frames[k].wakeAt =
                              t + (requiredDelay - timeSinceLastRequest)]
           ELSE StartThunk(w1, k, t)
  ELSE [w EXCEPT !.rq.processing = FALSE, !.frames = RemoveAt(@, k)]

NoEntry == [req |-> <<0, 0>>, batch |-> <<>>]

\* processQueue without the `this.processing` test of its guard
processQueueReentrant(w, t, randomExtra) ==
  IF Len(w.rq.queue) = 0
  THEN w
  ELSE LET w1 == [w EXCEPT !.rq.processing = TRUE,
                           !.frames = Append(@, [pc |-> "start",
                                                 entry |-> NoEntry,
                                                 wakeAt |-> 0,
                                                 startedAt |-> NullTime,
                                                 behind |-> 0])]
       IN  WhileLoop(w1, Len(w1.frames), t, randomExtra)

processQueue(w, t, randomExtra) ==
  IF w.rq.processing \/ Len(w.rq.queue) = 0
  THEN w
  ELSE LET w1 == [w EXCEPT !.rq.processing = TRUE,
                           !.frames = Append(@, [pc |-> "start",
                                                 entry |-> NoEntry,
                                                 wakeAt |-> 0,
                                                 startedAt |-> NullTime,
                                                 behind |-> 0])]
       IN  WhileLoop(w1, Len(w1.frames), t, randomExtra)

\* enqueue that keeps only the newest request: the pending ones are dropped
enqueueDropsPending(w, entry, t, randomExtra) ==
  processQueue([w EXCEPT !.rq.queue = <<entry>>,
                         !.enq = Append(@, entry.req)],
               t, randomExtra)

enqueue(w, entry, t, randomExtra) ==
  processQueue([w EXCEPT !.rq.queue = Append(@, entry),
                         !.enq = Append(@, entry.req)],
               t, randomExtra)

\* fetchMarketData validates the id list before it enqueues the thunk
FetchRefused(itemIDs) ==
  Len(itemIDs) = 0 \/ Len(itemIDs) > MAX_ITEMS_PER_CALL

\* fetchMarketData that checks the id list only after it enqueued the thunk
fetchMarketDataChecksLate(w, req, itemIDs, t, randomExtra) ==
  LET w1 == enqueue(w, [req |-> req, batch |-> itemIDs], t, randomExtra)
  IN  IF FetchRefused(itemIDs)
      THEN [threw |-> TRUE, w |-> [w1 EXCEPT !.refused = @ \cup {itemIDs}]]
      ELSE [threw |-> FALSE, w |-> w1]

\* fetchMarketData of request req: throws before anything is enqueued when
\* the id list is refused, else enqueues the thunk
fetchMarketData(w, req, itemIDs, t, randomExtra) ==
  IF FetchRefused(itemIDs)
  THEN [threw |-> TRUE, w |-> [w EXCEPT !.refused = @ \cup {itemIDs}]]
  ELSE [threw |-> FALSE,
        w |-> enqueue(w, [req |-> req, batch |-> itemIDs], t, randomExtra)]

\* what a pass records when the await of a batch's fetch returns or throws
Refused == [ok |-> FALSE, resp |-> Rejected, at |-> NullTime]

\* the for loop of updateItems from batch index i (1-based) up to its next
\* await that suspends: result is the pass and the world
RECURSIVE RunBatches(_, _, _, _, _)
RunBatches(p, pass, w, t, randomExtra) ==
  IF pass.i > Len(pass.batches)
  THEN [pass |-> [pass EXCEPT !.st = "done"], w |-> w]
  ELSE LET batch == pass.batches[pass.i]
           f == fetchMarketData(w, <<p, pass.i>>, batch, t, randomExtra)
       IN  IF f.threw
           THEN RunBatches(p,
                           [pass EXCEPT !.i = @ + 1, !.log = Append(@, Refused)],
                           w, t, randomExtra)
           ELSE [pass |-> pass, w |-> f.w]

\* updateItems(itemIDs) as activation p, up to its first suspension
updateItems(p, itemIDs, w, t, randomExtra) ==
  RunBatches(p,
             [st |-> "active", ids |-> itemIDs,
              batches |-> SplitBatches(itemIDs, 0), i |-> 1, log |-> <<>>],
             w, t, randomExtra)

\* itemsToProcess of updateItems
ItemsToProcess(batchData) ==
  IF batchData.itemID # NoItemId
  THEN [x \in {batchData.itemID} |-> batchData.info]
  ELSE IF batchData.hasItems THEN batchData.items ELSE EmptyMap

\* StoreBatch leaving its loop at the first id the response does not hold
RECURSIVE StoreBatchStopsAtMissing(_, _, _, _)
StoreBatchStopsAtMissing(db, batch, itemsToProcess, t) ==
  IF batch = <<>> THEN db
  ELSE LET itemID == Head(batch)
       IN  IF itemID \in DOMAIN itemsToProcess
           THEN StoreBatchStopsAtMissing(
                  processAndStoreItem(db, itemID, itemsToProcess[itemID], t),
                  Tail(batch), itemsToProcess, t)
           ELSE db

\* for (const itemID of batch) if (marketInfo) processAndStoreItem(...)
RECURSIVE StoreBatch(_, _, _, _)
StoreBatch(db, batch, itemsToProcess, t) ==
  IF batch = <<>> THEN db
  ELSE LET itemID == Head(batch)
           db1 == IF itemID \in DOMAIN itemsToProcess
                  THEN processAndStoreItem(db, itemID, itemsToProcess[itemID], t)
                  ELSE db
       IN  StoreBatch(db1, Tail(batch), itemsToProcess, t)

\* settleRequest with the try/catch around the loop instead of inside it: a
\* thunk that throws ends the drain loop
settleRequestLeavesLoop(w, k, ok, t, randomExtra) ==
  LET c == CHOOSE j \in 1 .. Len(w.calls) :
             w.calls[j].req = w.frames[k].entry.req /\ ~w.calls[j].settled
      w1 == [w EXCEPT !.rq.lastRequestTime = t,
                      !.calls[c].settled = TRUE,
                      !.calls[c].ok = ok]
  IN  IF ok
      THEN WhileLoop(w1, k, t, randomExtra)
      ELSE [w1 EXCEPT !.rq.processing = FALSE, !.frames = RemoveAt(@, k)]

\* processQueue after `await requestFn()` returned (ok) or threw (~ok):
\* lastRequestTime is set in the try and in the catch, the caller's promise
\* is resolved or rejected, and the while loop goes round
settleRequest(w, k, ok, t, randomExtra) ==
  LET c == CHOOSE j \in 1 .. Len(w.calls) :
             w.calls[j].req = w.frames[k].entry.req /\ ~w.calls[j].settled
      w1 == [w EXCEPT !.rq.lastRequestTime = t,
                      !.calls[c].settled = TRUE,
                      !.calls[c].ok = ok]
  IN  WhileLoop(w1, k, t, randomExtra)

\* the placeholder market data: 'NA' in the price and unit fields, no
\* listings
createNAMarketData ==
  [hasData |-> JsFalse,
   currentAveragePrice |-> JsNA,
   minPrice |-> JsNA,
   maxPrice |-> JsNA,
   listings |-> JsArray(0),
   listingsCount |-> JsNum(0),
   unitsForSale |-> JsNA,
   unitsSold |-> JsNA]

\* resumeUpdateItems whose catch rethrows: a failed batch ends the call
resumeUpdateItemsRethrows(p, pass, db, batch, result, w, t, randomExtra) ==
  LET db1 == IF result.ok
             THEN StoreBatch(db, batch, ItemsToProcess(result), t)
             ELSE db
      pass1 == [pass EXCEPT
                  !.i = @ + 1,
                  !.log = Append(@, [ok |-> result.ok, resp |-> result,
                                     at |-> IF result.ok THEN t ELSE NullTime])]
      r == IF result.ok
           THEN RunBatches(p, pass1, w, t, randomExtra)
           ELSE [pass |-> [pass1 EXCEPT !.st = "done"], w |-> w]
  IN  [pass |-> r.pass, w |-> r.w, db |-> db1]

\* resumeUpdateItems whose catch stores placeholder records for the batch
resumeUpdateItemsStoresNA(p, pass, db, batch, result, w, t, randomExtra) ==
  LET db1 == IF result.ok
             THEN StoreBatch(db, batch, ItemsToProcess(result), t)
             ELSE StoreBatch(db, batch,
                             [x \in SeqRange(batch) |-> createNAMarketData], t)
      pass1 == [pass EXCEPT
                  !.i = @ + 1,
                  !.log = Append(@, [ok |-> result.ok, resp |-> result,
                                     at |-> IF result.ok THEN t ELSE NullTime])]
      r == RunBatches(p, pass1, w, t, randomExtra)
  IN  [pass |-> r.pass, w |-> r.w, db |-> db1]

\* resumeUpdateItems whose catch deletes the rows of the failed batch
resumeUpdateItemsEvicts(p, pass, db, batch, result, w, t, randomExtra) ==
  LET db1 == IF result.ok
             THEN StoreBatch(db, batch, ItemsToProcess(result), t)
             ELSE [x \in (DOMAIN db) \ SeqRange(batch) |-> db[x]]
      pass1 == [pass EXCEPT
                  !.i = @ + 1,
                  !.log = Append(@, [ok |-> result.ok, resp |-> result,
                                     at |-> IF result.ok THEN t ELSE NullTime])]
      r == RunBatches(p, pass1, w, t, randomExtra)
  IN  [pass |-> r.pass, w |-> r.w, db |-> db1]

\* resumeUpdateItems that keeps the responses and stores them all when the
\* last batch has been fetched
resumeUpdateItemsStoresAtEnd(p, pass, db, batch, result, w, t, randomExtra) ==
  LET pass1 == [pass EXCEPT
                  !.i = @ + 1,
                  !.log = Append(@, [ok |-> result.ok, resp |-> result,
                                     at |-> IF result.ok THEN t ELSE NullTime])]
      r == RunBatches(p, pass1, w, t, randomExtra)
      RECURSIVE StoreAll(_, _)
      StoreAll(d, k) ==
        IF k > Len(pass1.log) THEN d
        ELSE StoreAll(IF pass1.log[k].ok
                      THEN StoreBatch(d, pass1.batches[k],
                                      ItemsToProcess(pass1.log[k].resp), t)
                      ELSE d,
                      k + 1)
      db1 == IF r.pass.st = "done" THEN StoreAll(db, 1) ELSE db
  IN  [pass |-> r.pass, w |-> r.w, db |-> db1]

\* resumeUpdateItems without the inner catch: the error of a failed batch
\* leaves the function, whose promise is rejected
resumeUpdateItemsRejects(p, pass, db, batch, result, w, t, randomExtra) ==
  LET db1 == IF result.ok
             THEN StoreBatch(db, batch, ItemsToProcess(result), t)
             ELSE db
      pass1 == [pass EXCEPT
                  !.i = @ + 1,
                  !.log = Append(@, [ok |-> result.ok, resp |-> result,
                                     at |-> IF result.ok THEN t ELSE NullTime])]
      r == IF result.ok
           THEN RunBatches(p, pass1, w, t, randomExtra)
           ELSE [pass |-> [pass1 EXCEPT !.st = "rejected"], w |-> w]
  IN  [pass |-> r.pass, w |-> r.w, db |-> db1]

\* updateItems after `await fetchMarketData(batch)` of batch pass.i returned
\* batchData or threw: the items of the batch are stored, or the error is
\* logged, and the for loop goes on with the next batch
resumeUpdateItems(p, pass, db, batch, result, w, t, randomExtra) ==
  LET db1 == IF result.ok
             THEN StoreBatch(db, batch, ItemsToProcess(result), t)
             ELSE db
      pass1 == [pass EXCEPT
                  !.i = @ + 1,
                  !.log = Append(@, [ok |-> result.ok, resp |-> result,
                                     at |-> IF result.ok THEN t ELSE NullTime])]
      r == RunBatches(p, pass1, w, t, randomExtra)
  IN  [pass |-> r.pass, w |-> r.w, db |-> db1]

(***************************************************************************)
(* Initial state: the module has been loaded, the timer is registered,     *)
(* the table is empty, nothing has been fetched                            *)
(***************************************************************************)
Init ==
  /\ now = StartTime
  /\ store = EmptyMap
  /\ requestQueue = [queue |-> <<>>, processing |-> FALSE, lastRequestTime |-> 0]
  /\ frames = <<>>
  /\ passes = [p \in PassIds |-> UnusedPass]
  /\ listening = FALSE
  /\ nextTickAt = StartTime + SCHEDULE_INTERVAL_MS
  /\ enqueued = <<>>
  /\ calls = <<>>
  /\ lastCall = [startAt |-> NullTime, endAt |-> NullTime]
  /\ refused = {}
  /\ returned = NoCall

SetWorld(w) ==
  /\ requestQueue' = w.rq
  /\ frames' = w.frames
  /\ enqueued' = w.enq
  /\ calls' = w.calls
  /\ refused' = w.refused

(***************************************************************************)
(* Actions                                                                 *)
(***************************************************************************)
\* startServer: app.listen, then initializeItems (not awaited)
startServer ==
  /\ ~listening
  /\ listening' = TRUE
  /\ \E randomExtra \in RandomExtras :
       LET allItemIDs == itemList
       IN  IF Len(allItemIDs) = 0
           THEN UNCHANGED <<passes, requestQueue, frames, enqueued, calls, refused>>
           ELSE LET r == updateItems(1, allItemIDs, World, now, randomExtra)
                IN  /\ passes' = [passes EXCEPT ![1] = r.pass]
                    /\ SetWorld(r.w)
  /\ UNCHANGED <<now, store, nextTickAt, lastCall, returned>>

\* performScheduledUpdate with a watchdog: a drain loop that is still busy
\* when the timer fires is given up and a new one is started
performScheduledUpdateWatchdog ==
  /\ listening
  /\ now >= nextTickAt
  /\ nextTickAt' = now + SCHEDULE_INTERVAL_MS
  /\ LET itemsToUpdate == getItemsNeedingUpdate(store, now)
         allItems == itemsToUpdate.hot \o itemsToUpdate.mild \o itemsToUpdate.cold
     IN  IF Len(allItems) = 0
         THEN UNCHANGED <<passes, requestQueue, frames, enqueued, calls, refused>>
         ELSE /\ \E p \in PassIds : passes[p].st = "unused"
              /\ LET p == CHOOSE q \in PassIds :
                             /\ passes[q].st = "unused"
                             /\ \A q2 \in PassIds :
                                  passes[q2].st = "unused" => q <= q2
                 IN  \E randomExtra \in RandomExtras :
                       LET r == updateItems(p, allItems,
                                            [World EXCEPT !.rq.processing = FALSE],
                                            now, randomExtra)
                       IN  /\ passes' = [passes EXCEPT ![p] = r.pass]
                           /\ SetWorld(r.w)
  /\ UNCHANGED <<now, store, listening, lastCall, returned>>

\* the setInterval callback: performScheduledUpdate
performScheduledUpdate ==
  /\ listening
  /\ now >= nextTickAt
  /\ nextTickAt' = now + SCHEDULE_INTERVAL_MS
  /\ LET itemsToUpdate == getItemsNeedingUpdate(store, now)
         allItems == itemsToUpdate.hot \o itemsToUpdate.mild \o itemsToUpdate.cold
     IN  IF Len(allItems) = 0
         THEN UNCHANGED <<passes, requestQueue, frames, enqueued, calls, refused>>
         ELSE /\ \E p \in PassIds : passes[p].st = "unused"
              /\ LET p == CHOOSE q \in PassIds :
                             /\ passes[q].st = "unused"
                             /\ \A q2 \in PassIds :
                                  passes[q2].st = "unused" => q <= q2
                 IN  \E randomExtra \in RandomExtras :
                       LET r == updateItems(p, allItems, World, now, randomExtra)
                       IN  /\ passes' = [passes EXCEPT ![p] = r.pass]
                           /\ SetWorld(r.w)
  /\ UNCHANGED <<now, store, listening, lastCall, returned>>

\* the timer of `await delay(waitTime)` fires: the thunk is invoked
delayElapsed(k) ==
  /\ k \in 1 .. Len(frames)
  /\ frames[k].pc = "delay"
  /\ now >= frames[k].wakeAt
  /\ SetWorld(StartThunk(World, k, now))
  /\ UNCHANGED <<now, store, passes, listening, nextTickAt, lastCall, returned>>

\* the thunk of frame k settles with outcome `result`: processQueue records
\* the time, settles the caller's promise and goes round its loop; then the
\* caller (updateItems) resumes
requestSettled(k, result, randomExtra) ==
  /\ k \in 1 .. Len(frames)
  /\ frames[k].pc = "request"
  /\ LET entry == frames[k].entry
         p == entry.req[1]
         w == settleRequest(World, k, result.ok, now, randomExtra)
         r == resumeUpdateItems(p, passes[p], store, entry.batch, result,
                                w, now, randomExtra)
     IN  /\ store' = r.db
         /\ passes' = [passes EXCEPT ![p] = r.pass]
         /\ SetWorld(r.w)
         /\ lastCall' = [startAt |-> frames[k].startedAt, endAt |-> now]
  /\ UNCHANGED <<now, listening, nextTickAt, returned>>

ShortTicks(t) == ((t - StartTime) % COLD_UPDATE_INTERVAL) \div BASE_DELAY_BETWEEN_CALLS_MS
DayTicks(t) == (t - StartTime) \div COLD_UPDATE_INTERVAL

\* time passes: by the base delay of the queue, or by the longest update
\* interval (after which every record is due)
clockAdvances ==
  /\ listening
  /\ \/ /\ ShortTicks(now) < MaxShortTicks
        /\ now' = now + BASE_DELAY_BETWEEN_CALLS_MS
     \/ /\ DayTicks(now) < MaxDayTicks
        /\ now' = now + COLD_UPDATE_INTERVAL
  /\ UNCHANGED <<store, requestQueue, frames, passes, listening, nextTickAt,
                 enqueued, calls, lastCall, refused, returned>>

Next ==
  \/ startServer
  \/ performScheduledUpdate
  \/ \E k \in 1 .. Len(frames) : delayElapsed(k)
  \/ \E k \in 1 .. Len(frames) :
       \E result \in Outcomes(frames[k].entry.batch) :
         \E randomExtra \in RandomExtras : requestSettled(k, result, randomExtra)
  \/ clockAdvances

Spec == Init /\ [][Next]_vars

(***************************************************************************)
(* The fetch queue on its own, driven by callers that call fetchMarketData *)
(* whenever they like, without waiting for their earlier requests          *)
(***************************************************************************)
\* the callers of fetchMarketData: two activations of updateItems
Callers == {1, 2}
\* id lists the callers pass
RequestLists == {<<>>, <<1>>, itemList}

\* caller c calls fetchMarketData(itemIDs); its request is numbered by the
\* position it would take in the history of enqueued requests
callerFetches(c, itemIDs, randomExtra) ==
  /\ Len(enqueued) < MaxRequests
  /\ SetWorld(fetchMarketData(World, <<c, Len(enqueued) + 1>>, itemIDs,
                              now, randomExtra).w)
  /\ UNCHANGED <<now, store, passes, listening, nextTickAt, lastCall, returned>>

\* the thunk of frame k resolves (ok) or throws; the caller does nothing more
thunkSettled(k, ok, randomExtra) ==
  /\ k \in 1 .. Len(frames)
  /\ frames[k].pc = "request"
  /\ SetWorld(settleRequest(World, k, ok, now, randomExtra))
  /\ lastCall' = [startAt |-> frames[k].startedAt, endAt |-> now]
  /\ UNCHANGED <<now, store, passes, listening, nextTickAt, returned>>

QueueNext ==
  \/ \E c \in Callers, itemIDs \in RequestLists, randomExtra \in RandomExtras :
       callerFetches(c, itemIDs, randomExtra)
  \/ \E k \in 1 .. Len(frames) : delayElapsed(k)
  \/ \E k \in 1 .. Len(frames), ok \in BOOLEAN, randomExtra \in RandomExtras :
       thunkSettled(k, ok, randomExtra)
  \/ clockAdvances

\* the queue is used once the server runs
QueueInit ==
  /\ now = StartTime
  /\ store = EmptyMap
  /\ requestQueue = [queue |-> <<>>, processing |-> FALSE, lastRequestTime |-> 0]
  /\ frames = <<>>
  /\ passes = [p \in PassIds |-> UnusedPass]
  /\ listening = TRUE
  /\ nextTickAt = StartTime + SCHEDULE_INTERVAL_MS
  /\ enqueued = <<>>
  /\ calls = <<>>
  /\ lastCall = [startAt |-> NullTime, endAt |-> NullTime]
  /\ refused = {}
  /\ returned = NoCall

QueueSpec == QueueInit /\ [][QueueNext]_vars

(***************************************************************************)
(* Reads of the store                                                      *)
(***************************************************************************)
\* the item object a read of database.js builds from a row (marketData is
\* parsed from its JSON text; updatedAt is not part of it)
RowToItem(row) ==
  [id |-> row.id,
   marketData |-> deepCopy(row.marketData),
   classification |-> row.classification,
   lastUpdate |-> row.lastUpdate,
   nextUpdate |-> row.nextUpdate]

\* the items of the rows `ids` (a sequence of ids that have a row)
MapRows(db, ids) == [k \in 1 .. Len(ids) |-> RowToItem(db[ids[k]])]

\* null is the empty sequence, an item is a sequence of one
getItemById(db, itemID) ==
  IF itemID \in DOMAIN db THEN <<RowToItem(db[itemID])>> ELSE <<>>

\* SELECT * FROM items, in rowid order
dbGetAllItems(db) ==
  MapRows(db, FilterSeq([k \in 1 .. NumItems |-> k], DOMAIN db))

\* SELECT * FROM items WHERE classification = ?
dbGetItemsByClassification(db, classification) ==
  MapRows(db, FilterSeq([k \in 1 .. NumItems |-> k],
                        {x \in DOMAIN db : db[x].classification = classification}))

\* the record the item manager makes up for a catalog id without a row
SynthesizedItem(itemID, t) ==
  [id |-> itemID,
   marketData |-> createNAMarketData,
   classification |-> "cold",
   lastUpdate |-> NullTime,
   nextUpdate |-> t]

\* getItem without the itemList lookup: null for every id without a row
getItemStoredOnly(db, itemID, t) ==
  LET item == getItemById(db, itemID)
  IN  IF Len(item) > 0
      THEN <<[item[1] EXCEPT !.marketData = deepCopy(@)]>>
      ELSE <<>>

getItem(db, itemID, t) ==
  LET item == getItemById(db, itemID)
  IN  IF Len(item) > 0
      THEN <<[item[1] EXCEPT !.marketData = deepCopy(@)]>>
      ELSE IF itemID \in SeqRange(itemList)
           THEN <<SynthesizedItem(itemID, t)>>
           ELSE <<>>

getAllItems(db, t) ==
  LET dbItems == dbGetAllItems(db)
      dbItemsMap == [x \in {dbItems[k].id : k \in 1 .. Len(dbItems)} |->
                       dbItems[CHOOSE k \in 1 .. Len(dbItems) : dbItems[k].id = x]]
  IN  [k \in 1 .. Len(itemList) |->
         IF itemList[k] \in DOMAIN dbItemsMap
         THEN dbItemsMap[itemList[k]]
         ELSE SynthesizedItem(itemList[k], t)]

\* getItemsByClassification of the in-memory variant: stored items only
getItemsByClassificationStoredOnly(db, classification, t) ==
  dbGetItemsByClassification(db, classification)

\* getItemsByClassification that adds the ids without a row to every tier
getItemsByClassificationAllTiers(db, classification, t) ==
  LET dbItems == dbGetItemsByClassification(db, classification)
      fetchedItemIDs == getAllItemIds(db)
      unfetched == FilterSeq(itemList, ItemIds \ fetchedItemIDs)
  IN  dbItems \o [k \in 1 .. Len(unfetched) |->
                    SynthesizedItem(unfetched[k], t)]

getItemsByClassification(db, classification, t) ==
  LET dbItems == dbGetItemsByClassification(db, classification)
      fetchedItemIDs == getAllItemIds(db)
      unfetched == FilterSeq(itemList, ItemIds \ fetchedItemIDs)
  IN  dbItems \o (IF classification = "cold"
                  THEN [k \in 1 .. Len(unfetched) |->
                          SynthesizedItem(unfetched[k], t)]
                  ELSE <<>>)

\* GET /api/stats at time t: the lengths of the full list and of the three
\* tier lists
getStatsRoute(db, t) ==
  LET allItems == getAllItems(db, t)
      hotItems == getItemsByClassification(db, "hot", t)
      mildItems == getItemsByClassification(db, "mild", t)
      coldItems == getItemsByClassification(db, "cold", t)
  IN  [success |-> TRUE,
       stats |-> [total |-> Len(allItems),
                  hot |-> Len(hotItems),
                  mild |-> Len(mildItems),
                  cold |-> Len(coldItems)]]

\* every variable but `returned`
serverVars ==
  <<now, store, requestQueue, frames, passes, listening, nextTickAt,
    enqueued, calls, lastCall, refused>>

(***************************************************************************)
(* The classifier on its own: classifyItem and getUpdateInterval called    *)
(* with market data and tiers of every kind                                *)
(***************************************************************************)
\* unitsSold numbers: multiples of VelocityStep, and the values around the
\* two thresholds
Velocities ==
  {k * VelocityStep : k \in 0 .. MaxVelocitySteps}
    \cup {COLD_THRESHOLD - 1, COLD_THRESHOLD, COLD_THRESHOLD + 1,
          MILD_THRESHOLD - 1, MILD_THRESHOLD, MILD_THRESHOLD + 1}

HasDataValues == {JsUndefined, JsNull, JsTrue, JsFalse}

UnitsSoldValues ==
  {JsUndefined, JsNull, JsNA}
    \cup {JsNum(v) : v \in Velocities}
    \cup {JsNumStr(v) : v \in {COLD_THRESHOLD - 1, COLD_THRESHOLD, MILD_THRESHOLD}}

MarketDatas == [hasData : HasDataValues, unitsSold : UnitsSoldValues]

\* the three tiers, and values that are none of them
TierArgs == {"hot", "mild", "cold", "warm", ""}

callClassifyItem(marketData) ==
  /\ returned' = [fn |-> "classifyItem",
                  marketData |-> marketData,
                  classification |-> classifyItem(marketData)]
  /\ UNCHANGED serverVars

callGetUpdateInterval(classification) ==
  /\ returned' = [fn |-> "getUpdateInterval",
                  classification |-> classification,
                  updateInterval |-> getUpdateInterval(classification)]
  /\ UNCHANGED serverVars

\* the two steps processAndStoreItem takes to schedule an item
\*   const classification = classifyItem(marketInfo);
\*   const updateInterval = getUpdateInterval(classification);
scheduleItem(marketInfo) ==
  /\ LET classification == classifyItem(marketInfo)
         updateInterval == getUpdateInterval(classification)
     IN  returned' = [fn |-> "scheduleItem",
                      marketData |-> marketInfo,
                      classification |-> classification,
                      updateInterval |-> updateInterval]
  /\ UNCHANGED serverVars

ClassifyNext ==
  \/ \E marketData \in MarketDatas : callClassifyItem(marketData)
  \/ \E classification \in TierArgs : callGetUpdateInterval(classification)
  \/ \E marketInfo \in MarketDatas : scheduleItem(marketInfo)

ClassifySpec == QueueInit /\ [][ClassifyNext]_vars

(***************************************************************************)
(* The store on its own: upsertItem and the reads of the item manager      *)
(* called in any order while time passes                                   *)
(***************************************************************************)
\* the ids upsertItem is called for on its own: the first of the catalog
\* and its neighbour
UpsertIds == {itemList[1], itemList[1] + 1}

\* item records passed to upsertItem (classification, lastUpdate and
\* nextUpdate may be missing)
UpsertArgs ==
  {[id |-> i,
    marketData |-> Snapshots[3],
    classification |-> c,
    lastUpdate |-> u[1],
    nextUpdate |-> u[2]] :
     i \in UpsertIds,
     c \in {"hot", ""},
     u \in {<<0, 0>>, <<StartTime, StartTime + HOT_UPDATE_INTERVAL>>}}

\* ids the reads are asked for: with and without a row, and one that is
\* not in the catalog
ReadIds == 1 .. NumItems + 1

callUpsertItem(itemData) ==
  /\ store' = upsertItem(store, itemData, now)
  /\ returned' = [fn |-> "upsertItem",
                  itemData |-> itemData,
                  times |-> IF returned.fn = "upsertItem"
                            THEN IF returned.itemData = itemData THEN 2 ELSE 1
                            ELSE 1]
  /\ UNCHANGED <<now, requestQueue, frames, passes, listening, nextTickAt,
                 enqueued, calls, lastCall, refused>>

callGetItem(itemID) ==
  /\ returned' = [fn |-> "getItem",
                  itemID |-> itemID,
                  items |-> getItem(store, itemID, now)]
  /\ UNCHANGED serverVars

callGetAllItems ==
  /\ returned' = [fn |-> "getAllItems", items |-> getAllItems(store, now)]
  /\ UNCHANGED serverVars

callGetItemsByClassification(classification) ==
  /\ returned' = [fn |-> "getItemsByClassification",
                  classification |-> classification,
                  items |-> getItemsByClassification(store, classification, now)]
  /\ UNCHANGED serverVars

StoreNext ==
  \/ \E itemData \in UpsertArgs : callUpsertItem(itemData)
  \/ \E itemID \in ReadIds : callGetItem(itemID)
  \/ callGetAllItems
  \/ \E classification \in {"hot", "cold"} :
       callGetItemsByClassification(classification)
  \/ clockAdvances

StoreSpec == QueueInit /\ [][StoreNext]_vars

(***************************************************************************)
(* The REST route GET /api/items/:id, called at any moment of the server's *)
(* life                                                                    *)
(***************************************************************************)
\* a path parameter is a sequence of characters
DigitOf ==
  [c \in {"0", "1", "2", "3", "4", "5", "6", "7", "8", "9"} |->
     CASE c = "0" -> 0 [] c = "1" -> 1 [] c = "2" -> 2 [] c = "3" -> 3
       [] c = "4" -> 4 [] c = "5" -> 5 [] c = "6" -> 6 [] c = "7" -> 7
       [] c = "8" -> 8 [] c = "9" -> 9]

\* the longest prefix of s made of digits
RECURSIVE DigitPrefix(_)
DigitPrefix(s) ==
  IF s # <<>> /\ Head(s) \in DOMAIN DigitOf
  THEN <<Head(s)>> \o DigitPrefix(Tail(s))
  ELSE <<>>

RECURSIVE DecimalValue(_)
DecimalValue(digits) ==
  IF digits = <<>> THEN 0
  ELSE 10 * DecimalValue(SubSeq(digits, 1, Len(digits) - 1))
         + DigitOf[digits[Len(digits)]]

RECURSIVE TrimStart(_)
TrimStart(s) == IF s # <<>> /\ Head(s) = " " THEN TrimStart(Tail(s)) ELSE s

\* parseInt(string, 10): leading blanks are skipped, a sign is read, then
\* the digits up to the first character that is not one; NaN without digits
parseInt(string) ==
  LET s1 == TrimStart(string)
      negative == s1 # <<>> /\ Head(s1) = "-"
      s2 == IF s1 # <<>> /\ Head(s1) \in {"-", "+"} THEN Tail(s1) ELSE s1
      digits == DigitPrefix(s2)
  IN  IF digits = <<>>
      THEN [isNaN |-> TRUE, n |-> 0]
      ELSE [isNaN |-> FALSE,
            n |-> IF negative THEN 0 - DecimalValue(digits)
                  ELSE DecimalValue(digits)]

\* values of req.params.id
IdParams ==
  {<<"1">>, <<"0", "6", "x">>, <<"9", "9">>, <<"-", "1">>, <<"x", "1">>}

\* the route answering 503 while an updateItems call is active
getItemRouteBusy(db, id, t) ==
  LET itemID == parseInt(id)
  IN  IF itemID.isNaN
      THEN [status |-> 400, success |-> FALSE, item |-> <<>>]
      ELSE IF \E p \in PassIds : passes[p].st = "active"
           THEN [status |-> 503, success |-> FALSE, item |-> <<>>]
           ELSE LET item == getItem(db, itemID.n, t)
                IN  IF Len(item) = 0
                    THEN [status |-> 404, success |-> FALSE, item |-> <<>>]
                    ELSE [status |-> 200, success |-> TRUE, item |-> item]

\* router.get('/:id'): the response (status, body)
getItemRoute(db, id, t) ==
  LET itemID == parseInt(id)
  IN  IF itemID.isNaN
      THEN [status |-> 400, success |-> FALSE, item |-> <<>>]
      ELSE LET item == getItem(db, itemID.n, t)
           IN  IF Len(item) = 0
               THEN [status |-> 404, success |-> FALSE, item |-> <<>>]
               ELSE [status |-> 200, success |-> TRUE, item |-> item]

\* a client's GET /api/items/:id is served (the server is listening)
requestItem(id) ==
  /\ listening
  /\ returned' = [fn |-> "GET /api/items/:id",
                  id |-> id,
                  response |-> getItemRoute(store, id, now)]
  /\ UNCHANGED serverVars

ServeNext ==
  \/ startServer
  \/ performScheduledUpdate
  \/ \E k \in 1 .. Len(frames) : delayElapsed(k)
  \/ \E k \in 1 .. Len(frames) :
       \E result \in Outcomes(frames[k].entry.batch) :
         \E randomExtra \in RandomExtras : requestSettled(k, result, randomExtra)
  \/ clockAdvances
  \/ \E id \in IdParams : requestItem(id)

ServeSpec == Init /\ [][ServeNext]_vars

(***************************************************************************)
(* The database functions when the database may be unavailable or a        *)
(* statement may throw: every exported function of database.js runs its    *)
(* statement inside safeDbOperation                                        *)
(***************************************************************************)
\* how one call of safeDbOperation goes:
\*   up          getDb() gives the database, the operation returns
\*   down        getDb() gives null
\*   throws      the operation throws (no reinitialisation, or it fails)
\*   retried     the operation throws 'database is locked' / 'no such
\*               table' / 'SQLITE_CORRUPT', the database is reinitialised
\*               and the second try returns
\*   retryThrows as retried, but the second try throws as well
DbHealths == {"up", "down", "throws", "retried", "retryThrows"}

\* safeDbOperation without its try/catch: the error of the operation
\* reaches the caller
safeDbOperationUncaught(health, db, operation, defaultValue) ==
  CASE health \in {"up", "retried"} ->
         [threw |-> FALSE, db |-> operation.db, ret |-> operation.ret]
    [] health = "down" ->
         [threw |-> FALSE, db |-> db, ret |-> defaultValue]
    [] health \in {"throws", "retryThrows"} ->
         [threw |-> TRUE, db |-> db, ret |-> defaultValue]

\* safeDbOperation(operation, defaultValue) on table db: `operation` is
\* what the statement does when it runs (the table after it, its result)
safeDbOperation(health, db, operation, defaultValue) ==
  CASE health = "up" ->
         [threw |-> FALSE, db |-> operation.db, ret |-> operation.ret]
    [] health = "down" ->
         [threw |-> FALSE, db |-> db, ret |-> defaultValue]
    [] health = "throws" ->
         [threw |-> FALSE, db |-> db, ret |-> defaultValue]
    [] health = "retried" ->
         [threw |-> FALSE, db |-> operation.db, ret |-> operation.ret]
    [] health = "retryThrows" ->
         [threw |-> FALSE, db |-> db, ret |-> defaultValue]

\* the reads database.js exports, with the argument each is called with
DatabaseReads ==
  {"getItemById", "getAllItems", "getItemsByClassification", "getAllItemIds",
   "getItemsNeedingUpdate"}

\* export function upsertItem(itemData)
databaseUpsertItem(itemData, health) ==
  /\ LET r == safeDbOperation(health, store,
                              [db |-> upsertItem(store, itemData, now),
                               ret |-> TRUE],
                              FALSE)
     IN  /\ store' = r.db
         /\ returned' = [fn |-> "database", op |-> "upsertItem",
                         health |-> health, threw |-> r.threw, ret |-> r.ret]
  /\ UNCHANGED <<now, requestQueue, frames, passes, listening, nextTickAt,
                 enqueued, calls, lastCall, refused>>

\* a read exported by database.js is called
databaseRead(op, health) ==
  /\ LET r ==
           CASE op = "getItemById" ->
                  safeDbOperation(health, store,
                                  [db |-> store,
                                   ret |-> getItemById(store, itemList[1])],
                                  <<>>)
             [] op = "getAllItems" ->
                  safeDbOperation(health, store,
                                  [db |-> store, ret |-> dbGetAllItems(store)],
                                  <<>>)
             [] op = "getItemsByClassification" ->
                  safeDbOperation(health, store,
                                  [db |-> store,
                                   ret |-> dbGetItemsByClassification(store, "hot")],
                                  <<>>)
             [] op = "getAllItemIds" ->
                  safeDbOperation(health, store,
                                  [db |-> store, ret |-> getAllItemIds(store)],
                                  {})
             [] op = "getItemsNeedingUpdate" ->
                  safeDbOperation(health, store,
                                  [db |-> store,
                                   ret |-> dbGetItemsNeedingUpdate(store, now)],
                                  [hot |-> <<>>, mild |-> <<>>, cold |-> <<>>])
     IN  /\ store' = r.db
         /\ returned' = [fn |-> "database", op |-> op,
                         health |-> health, threw |-> r.threw, ret |-> r.ret]
  /\ UNCHANGED <<now, requestQueue, frames, passes, listening, nextTickAt,
                 enqueued, calls, lastCall, refused>>

\* the loop of updateItems over the ids of a fetched batch, the upsert of
\* each processAndStoreItem going as health[itemID] says; an exception
\* would leave the loop
RECURSIVE StoreBatchUnder(_, _, _, _, _)
StoreBatchUnder(health, db, batch, itemsToProcess, t) ==
  IF batch = <<>> THEN [threw |-> FALSE, db |-> db]
  ELSE LET itemID == Head(batch)
           r == IF itemID \in DOMAIN itemsToProcess
                THEN safeDbOperation(
                       health[itemID], db,
                       [db |-> processAndStoreItem(db, itemID,
                                                   itemsToProcess[itemID], t),
                        ret |-> TRUE],
                       FALSE)
                ELSE [threw |-> FALSE, db |-> db, ret |-> FALSE]
       IN  IF r.threw
           THEN [threw |-> TRUE, db |-> r.db]
           ELSE StoreBatchUnder(health, r.db, Tail(batch), itemsToProcess, t)

\* the batch and the response storeFetchedItems works on
FetchedBatch == SubSeq(itemList, 1, 2)
FetchedItems == ItemsToProcess(MultiItem(SeqRange(FetchedBatch), 0))

\* updateItems stores the items of a batch it fetched
storeFetchedItems(health) ==
  /\ LET r == StoreBatchUnder(health, store, FetchedBatch, FetchedItems, now)
     IN  /\ store' = r.db
         /\ returned' = [fn |-> "storeFetchedItems",
                         health |-> health, threw |-> r.threw]
  /\ UNCHANGED <<now, requestQueue, frames, passes, listening, nextTickAt,
                 enqueued, calls, lastCall, refused>>

\* item records upsertItem is called with here: complete ones
DatabaseUpsertArgs ==
  {itemData \in UpsertArgs :
     itemData.classification # "" /\ itemData.lastUpdate # 0}

DatabaseNext ==
  \/ \E itemData \in DatabaseUpsertArgs, health \in DbHealths :
       databaseUpsertItem(itemData, health)
  \/ \E op \in DatabaseReads, health \in DbHealths : databaseRead(op, health)
  \/ \E health \in [SeqRange(FetchedBatch) -> DbHealths] :
       storeFetchedItems(health)
  \/ clockAdvances

DatabaseSpec == QueueInit /\ [][DatabaseNext]_vars

(***************************************************************************)
(* parseItemData of the browser-side client, called with raw single-item   *)
(* responses                                                               *)
(***************************************************************************)
\* `value || 0`
OrZero(value) == IF Truthy(value) THEN value ELSE JsNum(0)

\* parseItemData taking prices.min from maxPrice and prices.max from minPrice
parseItemDataSwapsMinMax(itemData) ==
  IF ~Truthy(itemData.hasData)
  THEN [itemID |-> itemData.itemID,
        hasData |-> JsFalse,
        error |-> "No market data available for this item",
        listingsCount |-> JsNum(0),
        unitsForSale |-> JsNum(0),
        unitsSold |-> JsNum(0),
        prices |-> [currentAverage |-> JsNum(0),
                    min |-> JsNum(0),
                    max |-> JsNum(0)]]
  ELSE [itemID |-> itemData.itemID,
        hasData |-> JsTrue,
        error |-> "",
        listingsCount |-> OrZero(itemData.listingsCount),
        unitsForSale |-> OrZero(itemData.unitsForSale),
        unitsSold |-> OrZero(itemData.unitsSold),
        prices |-> [currentAverage |-> OrZero(itemData.currentAveragePrice),
                    min |-> OrZero(itemData.maxPrice),
                    max |-> OrZero(itemData.minPrice)]]

\* parseItemData(itemData) for an itemData that is an object: the fields of
\* the result that are numbers (error is "" where the result has none)
parseItemData(itemData) ==
  IF ~Truthy(itemData.hasData)
  THEN [itemID |-> itemData.itemID,
        hasData |-> JsFalse,
        error |-> "No market data available for this item",
        listingsCount |-> JsNum(0),
        unitsForSale |-> JsNum(0),
        unitsSold |-> JsNum(0),
        prices |-> [currentAverage |-> JsNum(0),
                    min |-> JsNum(0),
                    max |-> JsNum(0)]]
  ELSE [itemID |-> itemData.itemID,
        hasData |-> JsTrue,
        error |-> "",
        listingsCount |-> OrZero(itemData.listingsCount),
        unitsForSale |-> OrZero(itemData.unitsForSale),
        unitsSold |-> OrZero(itemData.unitsSold),
        prices |-> [currentAverage |-> OrZero(itemData.currentAveragePrice),
                    min |-> OrZero(itemData.minPrice),
                    max |-> OrZero(itemData.maxPrice)]]

\* values minPrice may hold in a raw response: absent, null, zero, and the
\* two prices of the client's test data
RawFieldValues == {JsUndefined, JsNull, JsNum(0), JsNum(10000), JsNum(12000)}

\* raw single-item responses
RawItems ==
  [itemID : {itemList[1]},
   hasData : {JsUndefined, JsTrue, JsFalse},
   listingsCount : {JsUndefined, JsNum(0), JsNum(MAX_ITEMS_PER_CALL)},
   unitsForSale : {JsUndefined, JsNum(VelocityStep)},
   unitsSold : {JsUndefined, JsNum(0), JsNum(VelocityStep)},
   currentAveragePrice : {JsNull, JsNum(10000)},
   minPrice : RawFieldValues,
   maxPrice : {JsUndefined, JsNum(12000)}]

callParseItemData(itemData) ==
  /\ returned' = [fn |-> "parseItemData",
                  itemData |-> itemData,
                  parsed |-> parseItemData(itemData)]
  /\ UNCHANGED serverVars

ParseNext == \E itemData \in RawItems : callParseItemData(itemData)

ParseSpec == QueueInit /\ [][ParseNext]_vars

(***************************************************************************)
(* Refreshes of single items: processAndStoreItem called with market infos *)
(* of every kind, for ids with and without a record, while time passes     *)
(***************************************************************************)
\* the id that is refreshed
RefreshIds == {itemList[1]}

\* market infos a response may hold for an item: hasData given or not,
\* unitsSold a number of each tier, the string 'NA', a numeric string, or
\* missing
RefreshInfos ==
  [hasData : {JsUndefined, JsTrue, JsFalse},
   unitsSold : {JsUndefined, JsNA, JsNum(COLD_THRESHOLD \div 2),
                JsNum(MILD_THRESHOLD \div 2), JsNum(MILD_THRESHOLD + 500),
                JsNumStr(MILD_THRESHOLD)}]

\* the tier of the record of itemID, or that it has none
TierOf(db, itemID) ==
  IF itemID \in DOMAIN db THEN db[itemID].classification ELSE "never-fetched"

\* processAndStoreItem(itemID, marketInfo, itemInfo) at the current time
refreshItem(itemID, marketInfo) ==
  /\ store' = processAndStoreItem(store, itemID, marketInfo, now)
  /\ returned' = [fn |-> "processAndStoreItem",
                  itemID |-> itemID,
                  marketInfo |-> marketInfo,
                  before |-> TierOf(store, itemID)]
  /\ UNCHANGED <<now, requestQueue, frames, passes, listening, nextTickAt,
                 enqueued, calls, lastCall, refused>>

RefreshNext ==
  \/ \E itemID \in RefreshIds, marketInfo \in RefreshInfos :
       refreshItem(itemID, marketInfo)
  \/ clockAdvances

RefreshSpec == QueueInit /\ [][RefreshNext]_vars

(***************************************************************************)
(* The server under the assumptions that timers fire and that every        *)
(* upstream call settles                                                   *)
(***************************************************************************)
\* time passes until the timer of `await delay(waitTime)` of frame k is due
timerDue(k) ==
  /\ k \in 1 .. Len(frames)
  /\ frames[k].pc = "delay"
  /\ frames[k].wakeAt > now
  /\ now' = frames[k].wakeAt
  /\ UNCHANGED <<store, requestQueue, frames, passes, listening, nextTickAt,
                 enqueued, calls, lastCall, refused, returned>>

\* time passes until the setInterval timer is due (as long as a call of
\* updateItems is left to be started)
tickDue ==
  /\ listening
  /\ now < nextTickAt
  /\ \E p \in PassIds : passes[p].st = "unused"
  /\ now' = nextTickAt
  /\ UNCHANGED <<store, requestQueue, frames, passes, listening, nextTickAt,
                 enqueued, calls, lastCall, refused, returned>>

LiveNext ==
  \/ startServer
  \/ performScheduledUpdate
  \/ \E k \in 1 .. Len(frames) : delayElapsed(k)
  \/ \E k \in 1 .. Len(frames) :
       \E result \in Outcomes(frames[k].entry.batch) :
         \E randomExtra \in RandomExtras : requestSettled(k, result, randomExtra)
  \/ \E k \in 1 .. Len(frames) : timerDue(k)
  \/ tickDue

\* a delay that is awaited ends, and a thunk that was invoked resolves or
\* rejects
LiveFairness ==
  /\ WF_vars(\E k \in 1 .. Len(frames) : timerDue(k))
  /\ WF_vars(\E k \in 1 .. Len(frames) : delayElapsed(k))
  /\ WF_vars(\E k \in 1 .. Len(frames) :
               \E result \in Outcomes(frames[k].entry.batch) :
                 \E randomExtra \in RandomExtras :
                   requestSettled(k, result, randomExtra))

LiveSpec == Init /\ [][LiveNext]_vars /\ LiveFairness

(***************************************************************************)
(* The fetch queue on its own under the assumptions that timers fire and   *)
(* that every thunk settles                                                *)
(***************************************************************************)
QueueLiveNext ==
  \/ \E c \in Callers, itemIDs \in RequestLists, randomExtra \in RandomExtras :
       callerFetches(c, itemIDs, randomExtra)
  \/ \E k \in 1 .. Len(frames) : delayElapsed(k)
  \/ \E k \in 1 .. Len(frames), ok \in BOOLEAN, randomExtra \in RandomExtras :
       thunkSettled(k, ok, randomExtra)
  \/ \E k \in 1 .. Len(frames) : timerDue(k)

QueueLiveFairness ==
  /\ WF_vars(\E k \in 1 .. Len(frames) : timerDue(k))
  /\ WF_vars(\E k \in 1 .. Len(frames) : delayElapsed(k))
  /\ WF_vars(\E k \in 1 .. Len(frames), ok \in BOOLEAN,
                 randomExtra \in RandomExtras :
               thunkSettled(k, ok, randomExtra))

QueueLiveSpec == QueueInit /\ [][QueueLiveNext]_vars /\ QueueLiveFairness

(***************************************************************************)
(* Properties                                                              *)
(***************************************************************************)
InFlight == {k \in 1 .. Len(frames) : frames[k].pc = "request"}
ActivePasses == {p \in PassIds : passes[p].st = "active"}

\* C3: a thunk is started no earlier than the base delay (1000 ms) after the
\* thunk before it completed or failed, hence at least 1000 ms after that
\* thunk was started, whoever enqueued the two and however the first ended
C3_MinimumSpacing ==
  \A k \in InFlight :
    lastCall.endAt # NullTime =>
      /\ frames[k].startedAt >= lastCall.endAt + BASE_DELAY_BETWEEN_CALLS_MS
      /\ frames[k].startedAt >= lastCall.startAt + BASE_DELAY_BETWEEN_CALLS_MS

\* a thunk of one pass is in flight right after a thunk of another pass failed
C3_Witness ==
  /\ Len(calls) >= 2
  /\ InFlight # {}
  /\ calls[Len(calls) - 1].settled
  /\ ~calls[Len(calls) - 1].ok
  /\ calls[Len(calls) - 1].req[1] # calls[Len(calls)].req[1]

\* C4: at most one drain loop exists and at most one thunk is in flight,
\* however many updateItems calls are active and however often
\* enqueue/processQueue is entered while the loop runs
C4_SingleFlight ==
  /\ Len(frames) <= 1
  /\ Cardinality(InFlight) <= 1
  /\ Cardinality({c \in 1 .. Len(calls) : ~calls[c].settled}) <= 1
  /\ Len(frames) = 1 <=> requestQueue.processing

\* two updateItems calls are active, one thunk is in flight and a request
\* that was enqueued while the loop was running is pending
C4_Witness ==
  /\ Cardinality(ActivePasses) = 2
  /\ Cardinality(InFlight) = 1
  /\ Len(requestQueue.queue) >= 1

\* C5: thunks are started in the order their requests were enqueued
C5_Fifo ==
  /\ Len(calls) <= Len(enqueued)
  /\ \A j \in 1 .. Len(calls) : calls[j].req = enqueued[j]

\* a thunk was started by a shift that left a request of another caller
\* pending, after an earlier thunk had settled
C5_Witness ==
  /\ Len(calls) >= 2
  /\ \E k \in InFlight :
       /\ frames[k].behind >= 1
       /\ Len(requestQueue.queue) >= 1
       /\ Head(requestQueue.queue).req[1] # frames[k].entry.req[1]

\* the index in calls of the thunk of batch k of pass p (0 when not started)
CallOf(p, k) ==
  IF \E c \in 1 .. Len(calls) : calls[c].req = <<p, k>>
  THEN CHOOSE c \in 1 .. Len(calls) : calls[c].req = <<p, k>>
  ELSE 0

\* C6: a failed request does not stop the queue (while requests are pending
\* the drain loop is running), and what a caller's await yields for a batch
\* is the outcome of the thunk of that batch and of no other
C6_FailureIsolated ==
  /\ Len(requestQueue.queue) > 0 =>
       /\ requestQueue.processing
       /\ \E k \in 1 .. Len(frames) : frames[k].pc \in {"delay", "request"}
  /\ \A p \in PassIds :
       \A k \in 1 .. Len(passes[p].log) :
         /\ CallOf(p, k) # 0
         /\ calls[CallOf(p, k)].settled
         /\ calls[CallOf(p, k)].ok = passes[p].log[k].ok
  /\ \A c \in 1 .. Len(calls) :
       calls[c].settled => Len(passes[calls[c].req[1]].log) >= calls[c].req[2]

\* after a thunk failed, the next request, of another pass, was executed and
\* its caller got that thunk's result
C6_Witness ==
  \E c \in 1 .. Len(calls) - 1 :
    /\ calls[c].settled /\ ~calls[c].ok
    /\ calls[c + 1].settled /\ calls[c + 1].ok
    /\ calls[c].req[1] # calls[c + 1].req[1]
    /\ passes[calls[c + 1].req[1]].log[calls[c + 1].req[2]].ok

\* the ids of batch k of pass p that the response to that batch held
Answered(p, k) ==
  SeqRange(passes[p].batches[k])
    \cap DOMAIN ItemsToProcess(passes[p].log[k].resp)

\* C1: when an updateItems call has returned, every one of its batches was
\* fetched whether or not another batch of the call failed, and every id of
\* a batch that did not fail and that its response held has a record written
\* when that batch was applied (or rewritten later)
C1_FailingBatchSkippedOnly ==
  \A p \in PassIds :
    passes[p].st = "done" =>
      /\ Len(passes[p].log) = Len(passes[p].batches)
      /\ \A k \in 1 .. Len(passes[p].batches) :
           /\ CallOf(p, k) # 0
           /\ calls[CallOf(p, k)].settled
           /\ passes[p].log[k].ok =>
                \A id \in Answered(p, k) :
                  /\ id \in DOMAIN store
                  /\ store[id].lastUpdate >= passes[p].log[k].at

\* a call has returned whose first batch failed and whose second batch was
\* answered and stored
C1_Witness ==
  \E p \in PassIds :
    /\ passes[p].st = "done"
    /\ Len(passes[p].batches) = 2
    /\ ~passes[p].log[1].ok
    /\ passes[p].log[2].ok
    /\ Answered(p, 2) # {}
    /\ \A id \in Answered(p, 2) : store[id].lastUpdate = passes[p].log[2].at

\* the ids getItemsNeedingUpdate reports at time t
DueIds(db, t) ==
  LET g == getItemsNeedingUpdate(db, t)
  IN  SeqRange(g.hot) \cup SeqRange(g.mild) \cup SeqRange(g.cold)

\* this step is the rejection of the thunk calls[c]
FetchFails(c) ==
  /\ ~calls[c].settled
  /\ calls'[c].settled
  /\ ~calls'[c].ok

C7_NextUpdateDerived ==
  \A id \in DOMAIN store :
    /\ store[id].lastUpdate # NullTime
    /\ store[id].nextUpdate =
         store[id].lastUpdate + getUpdateInterval(store[id].classification)

\* a record was rewritten by a second pass with another classification,
\* after a batch had failed
C7_Witness ==
  /\ \E id \in DOMAIN store :
       /\ store[id].lastUpdate > StartTime + MaxShortTicks * BASE_DELAY_BETWEEN_CALLS_MS
       /\ store[id].classification = "hot"
       /\ \E p \in PassIds : \E k \in 1 .. Len(passes[p].log) :
            /\ passes[p].log[k].ok
            /\ passes[p].log[k].at < store[id].lastUpdate
            /\ id \in Answered(p, k)
            /\ classifyItem(ItemsToProcess(passes[p].log[k].resp)[id]) # "hot"
  /\ \E p \in PassIds : \E k \in 1 .. Len(passes[p].log) : ~passes[p].log[k].ok
  /\ {store[id].classification : id \in DOMAIN store} = {"hot", "mild", "cold"}

\* times at which the due query is probed: the clock, and each stored
\* nextUpdate with the instants just before and after it
ProbeTimes ==
  {now} \cup UNION {{store[id].nextUpdate - 1, store[id].nextUpdate,
                     store[id].nextUpdate + 1} : id \in DOMAIN store}

\* C8: at any time t, a stored record is listed by getItemsNeedingUpdate
\* exactly when its nextUpdate <= t, in the group of its classification and
\* in no other group
C8_DueIffPastNextUpdate ==
  \A t \in ProbeTimes :
    LET g == getItemsNeedingUpdate(store, t)
        listed == [c \in {"hot", "mild", "cold"} |-> SeqRange(g[c])]
    IN  \A id \in DOMAIN store :
          \A c \in {"hot", "mild", "cold"} :
            (id \in listed[c])
              <=> (store[id].nextUpdate <= t /\ store[id].classification = c)

\* at the current time each group holds a due record, and a record that is
\* not yet due exists
C8_Witness ==
  /\ \A c \in {"hot", "mild", "cold"} :
       \E id \in DOMAIN store :
         /\ store[id].classification = c
         /\ store[id].nextUpdate <= now
         /\ id \in SeqRange(getItemsNeedingUpdate(store, now)[c])
  /\ \E id \in DOMAIN store :
       /\ store[id].nextUpdate > now
       /\ id \notin DueIds(store, now)

\* C9: at any time, every catalog id without a record is in the cold group,
\* in the database variant and in the in-memory variant
C9_UnfetchedAlwaysCold ==
  \A t \in ProbeTimes \cup {0} :
    LET cold == SeqRange(getItemsNeedingUpdate(store, t).cold)
        memCold == SeqRange(memGetItemsNeedingUpdate(store, t).cold)
    IN  \A id \in ItemIds \ DOMAIN store : id \in cold /\ id \in memCold

\* after a pass has returned some ids have records, none of them due, and
\* an id without a record is listed
C9_Witness ==
  /\ \E p \in PassIds : passes[p].st = "done"
  /\ DOMAIN store # {}
  /\ \A id \in DOMAIN store : store[id].nextUpdate > now
  /\ ItemIds \ DOMAIN store # {}
  /\ SeqRange(getItemsNeedingUpdate(store, now).cold) = ItemIds \ DOMAIN store

RECURSIVE Flatten(_)
Flatten(ss) == IF ss = <<>> THEN <<>> ELSE Head(ss) \o Flatten(Tail(ss))

\* C10: every upstream call carries between 1 and MAX_ITEMS_PER_CALL ids,
\* and the batches of an updateItems call, in order, make up its id list
C10_BatchesPartition ==
  /\ \A c \in 1 .. Len(calls) :
       Len(calls[c].batch) \in 1 .. MAX_ITEMS_PER_CALL
  /\ \A p \in PassIds :
       passes[p].st # "unused" =>
         /\ Flatten(passes[p].batches) = passes[p].ids
         /\ \A k \in 1 .. Len(passes[p].batches) :
              Len(passes[p].batches[k]) \in 1 .. MAX_ITEMS_PER_CALL
         /\ \A k \in 1 .. Len(passes[p].log) : CallOf(p, k) # 0

\* one call had more ids than fit one upstream call, another exactly as many
\* as fit, and the thunks of all their batches were started
C10_Witness ==
  /\ \E p \in PassIds :
       /\ Len(passes[p].ids) > MAX_ITEMS_PER_CALL
       /\ Len(passes[p].batches) = 2
       /\ passes[p].st = "done"
  /\ \E p \in PassIds :
       /\ Len(passes[p].ids) = MAX_ITEMS_PER_CALL
       /\ Len(passes[p].batches) = 1
       /\ passes[p].st = "done"

\* C11: a call of fetchMarketData with an empty id list or with more than
\* MAX_ITEMS_PER_CALL ids throws before anything is enqueued: in the step
\* that records the refused list the pending queue, lastRequestTime, the
\* processing flag and the drain loops are unchanged and no thunk (HTTP
\* call) is started; no request with such a list is ever among the calls
C11_RefusedBeforeEnqueue ==
  [][/\ refused' # refused =>
          /\ requestQueue' = requestQueue
          /\ frames' = frames
          /\ enqueued' = enqueued
          /\ calls' = calls
     /\ \A j \in 1 .. Len(calls') :
          /\ Len(calls'[j].batch) > 0
          /\ Len(calls'[j].batch) <= MAX_ITEMS_PER_CALL]_vars

\* the empty list and the list of more than MAX_ITEMS_PER_CALL ids have both
\* been refused while a request was in flight and another one pending
C11_Witness ==
  /\ <<>> \in refused
  /\ \E itemIDs \in refused : Len(itemIDs) > MAX_ITEMS_PER_CALL
  /\ requestQueue.processing
  /\ InFlight # {}
  /\ Len(requestQueue.queue) > 0

\* C12: at no time are two calls of updateItems (startup pass, scheduled
\* passes) active together
C12_SinglePass == Cardinality(ActivePasses) <= 1

\* pass p got the answer to a batch in this step
Wrote(p) == Len(passes'[p].log) > Len(passes[p].log)
\* the item map of that answer, and the ids of the batch it has items for
WrittenItems(p) == ItemsToProcess(passes'[p].log[Len(passes'[p].log)].resp)
WrittenIds(p) ==
  IF passes'[p].log[Len(passes'[p].log)].ok
  THEN SeqRange(passes[p].batches[passes[p].i]) \cap DOMAIN WrittenItems(p)
  ELSE {}
\* the row one write of market info `info` for id at time t makes
RowOf(id, info, t) == processAndStoreItem(EmptyMap, id, info, t)[id]
\* the ids batch k of pass p got an item for (k is answered and succeeded)
Covered(p, k) ==
  IF passes[p].log[k].ok
  THEN SeqRange(passes[p].batches[k]) \cap DOMAIN ItemsToProcess(passes[p].log[k].resp)
  ELSE {}

\* C13: whichever passes overlap, every write of an id replaces its record
\* by the row of that write alone (all columns from the one response and the
\* one time of the write), and the records of the ids it does not write stay
\* as they were: a record is always the row written last, never a mix of two
\* writes, and there is one record per id (id is the key of the table)
C13_LastWriteWins ==
  [][\A p \in PassIds :
       Wrote(p) =>
         /\ \A id \in WrittenIds(p) :
              /\ id \in DOMAIN store'
              /\ store'[id] = RowOf(id, WrittenItems(p)[id], now)
         /\ \A id \in (DOMAIN store') \ WrittenIds(p) :
              /\ id \in DOMAIN store
              /\ store'[id] = store[id]]_vars

\* two passes are active together, both have stored the same id from
\* different market infos, and the record is the row of the later write
C13_Witness ==
  /\ ActivePasses = {1, 2}
  /\ \E id \in DOMAIN store :
       \E k1 \in 1 .. Len(passes[1].log), k2 \in 1 .. Len(passes[2].log) :
         /\ id \in Covered(1, k1) \cap Covered(2, k2)
         /\ LET info1 == ItemsToProcess(passes[1].log[k1].resp)[id]
                info2 == ItemsToProcess(passes[2].log[k2].resp)[id]
                row1 == RowOf(id, info1, passes[1].log[k1].at)
                row2 == RowOf(id, info2, passes[2].log[k2].at)
            IN  /\ row1.classification # row2.classification
                /\ row1.marketData # row2.marketData
                /\ store[id] = row2

\* C14: a record appears only in a step in which a fetch that has an item
\* for its id succeeds, and once an id has a record it has one in every
\* later state, whatever succeeds or fails afterwards
C14_CreatedNeverDeleted ==
  [][/\ DOMAIN store \subseteq DOMAIN store'
     /\ \A id \in (DOMAIN store') \ DOMAIN store :
          \E p \in PassIds : Wrote(p) /\ id \in WrittenIds(p)]_vars

\* an id stored by the first batch of the startup pass is in a batch of the
\* second pass that failed, and still has its record
C14_Witness ==
  \E id \in DOMAIN store :
    /\ Len(passes[1].log) > 0
    /\ id \in Covered(1, 1)
    /\ \E k \in 1 .. Len(passes[2].log) :
         /\ ~passes[2].log[k].ok
         /\ id \in SeqRange(passes[2].batches[k])
    /\ passes[2].st = "done"

\* C15: classifyItem returns cold for every market data whose hasData is
\* false, whatever unitsSold holds
C15_NoDataIsCold ==
  (returned.fn = "classifyItem" /\ returned.marketData.hasData = JsFalse)
    => returned.classification = "cold"

\* C16: for market data that has data (hasData true, or not given) and a
\* number v in unitsSold, classifyItem returns cold when v < COLD_THRESHOLD,
\* mild when COLD_THRESHOLD <= v < MILD_THRESHOLD and hot when
\* v >= MILD_THRESHOLD
C16_TiersByVelocity ==
  (/\ returned.fn = "classifyItem"
   /\ returned.marketData.hasData # JsFalse
   /\ returned.marketData.unitsSold.t = "number")
    => LET v == returned.marketData.unitsSold.n
       IN  returned.classification =
             (IF v < COLD_THRESHOLD THEN "cold"
              ELSE IF v < MILD_THRESHOLD THEN "mild"
              ELSE "hot")

\* classifyItem has answered mild at exactly COLD_THRESHOLD
C16_Witness ==
  /\ returned.fn = "classifyItem"
  /\ returned.marketData.hasData = JsTrue
  /\ returned.marketData.unitsSold = JsNum(COLD_THRESHOLD)
  /\ returned.classification = "mild"

\* C17: of two items scheduled one after the other the one with the larger
\* unitsSold number never gets the longer interval; the intervals of hot,
\* mild and cold are in ascending order; getUpdateInterval answers every
\* argument, with the cold interval for what is not a tier
C17_IntervalMonotone ==
  [][/\ (/\ returned.fn = "scheduleItem"
         /\ returned'.fn = "scheduleItem"
         /\ returned.marketData.unitsSold.t = "number"
         /\ returned'.marketData.unitsSold.t = "number"
         /\ returned.marketData.unitsSold.n <= returned'.marketData.unitsSold.n)
          => returned.updateInterval >= returned'.updateInterval
     /\ returned'.fn = "getUpdateInterval" =>
          /\ returned'.updateInterval \in
               {HOT_UPDATE_INTERVAL, MILD_UPDATE_INTERVAL, COLD_UPDATE_INTERVAL}
          /\ returned'.classification \notin {"hot", "mild", "cold"}
               => returned'.updateInterval = COLD_UPDATE_INTERVAL
     /\ getUpdateInterval("hot") <= getUpdateInterval("mild")
     /\ getUpdateInterval("mild") <= getUpdateInterval("cold")]_vars

\* a hot item has been scheduled with the shortest interval
C17_Witness ==
  /\ returned.fn = "scheduleItem"
  /\ returned.marketData.unitsSold.t = "number"
  /\ returned.marketData.unitsSold.n >= MILD_THRESHOLD
  /\ returned.classification = "hot"
  /\ returned.updateInterval = HOT_UPDATE_INTERVAL
  /\ returned.updateInterval < MILD_UPDATE_INTERVAL

\* what the reads show of a table: every item by id, all items, the items of
\* each classification, and the due items at each probed time
Observable(db, times) ==
  [byId |-> [id \in ReadIds |-> getItemById(db, id)],
   all |-> dbGetAllItems(db),
   byClassification |-> [c \in {"hot", "mild", "cold"} |->
                           dbGetItemsByClassification(db, c)],
   due |-> [t \in times |-> getItemsNeedingUpdate(db, t)]]

\* C18: a call of upsertItem changes the row of its id only, and when it
\* repeats the call before it with the same item record, however much later,
\* the reads show the same table after it as before it
C18_UpsertIdempotent ==
  [][(returned'.fn = "upsertItem" /\ now' = now) =>
       /\ \A id \in (DOMAIN store') \ {returned'.itemData.id} :
            /\ id \in DOMAIN store
            /\ store'[id] = store[id]
       /\ DOMAIN store \subseteq DOMAIN store'
       /\ returned'.times = 2 =>
            Observable(store', ProbeTimes) = Observable(store, ProbeTimes)]_vars

\* the same item record has been upserted twice running, the second time
\* after the clock has moved on, next to the record of another id
C18_Witness ==
  /\ returned.fn = "upsertItem"
  /\ returned.times = 2
  /\ Cardinality(DOMAIN store) > 1
  /\ store[returned.itemData.id].updatedAt = UnixSeconds(now)
  /\ now > StartTime

\* C19: after a successful fetch of a batch, an id whose market info has a
\* unitsSold number at or above the hot threshold has a record classified
\* hot with nextUpdate = lastUpdate + HOT_UPDATE_INTERVAL, and an id whose
\* market info has hasData false has a record classified cold whose market
\* data is the placeholder (hasData false, unitsSold 'NA')
C19_RefreshedRecords ==
  [][\A p \in PassIds :
       Wrote(p) =>
         \A id \in WrittenIds(p) :
           LET info == WrittenItems(p)[id]
           IN  /\ (info.unitsSold.t = "number" /\ info.unitsSold.n >= MILD_THRESHOLD)
                    => /\ store'[id].classification = "hot"
                       /\ store'[id].nextUpdate =
                            store'[id].lastUpdate + HOT_UPDATE_INTERVAL
               /\ info.hasData = JsFalse
                    => /\ store'[id].classification = "cold"
                       /\ store'[id].marketData.hasData = JsFalse
                       /\ store'[id].marketData.unitsSold = JsNA]_vars

\* item is the made-up record of id: cold, never updated, placeholder market
\* data whose price and unit fields all hold 'NA'
IsPlaceholder(item, id) ==
  /\ item.id = id
  /\ item.classification = "cold"
  /\ item.lastUpdate = NullTime
  /\ item.marketData.hasData = JsFalse
  /\ \A f \in {"currentAveragePrice", "minPrice", "maxPrice",
               "unitsForSale", "unitsSold"} : item.marketData[f] = JsNA

\* the read recorded in r, made on table db, did not change the table and
\* gave exactly one item for every catalog id without a row, and that item
\* satisfies Holds
ReadsSynthesize(r, dbBefore, db, Holds(_, _)) ==
  r.fn \in {"getItem", "getAllItems", "getItemsByClassification"} =>
    /\ db = dbBefore
    /\ \A id \in ItemIds \ DOMAIN db :
         (\/ r.fn = "getAllItems"
          \/ r.fn = "getItem" /\ r.itemID = id
          \/ r.fn = "getItemsByClassification" /\ r.classification = "cold")
           => /\ Cardinality({k \in 1 .. Len(r.items) : r.items[k].id = id}) = 1
              /\ \A k \in 1 .. Len(r.items) :
                   r.items[k].id = id => Holds(r.items[k], id)

\* the placeholder with every counter, listingsCount too, holding 'NA'
AllCountersNA(item, id) ==
  /\ IsPlaceholder(item, id)
  /\ item.marketData.listingsCount = JsNA

\* the placeholder as createNAMarketData makes it: no listings, a
\* listingsCount of 0
ListingsCountZero(item, id) ==
  /\ IsPlaceholder(item, id)
  /\ item.marketData.listingsCount = JsNum(0)
  /\ item.marketData.listings = JsArray(0)

\* C20 as stated: every read gives, for a catalog id without a row, a record
\* classified cold with lastUpdate null and placeholder market data with
\* hasData false and all counters 'NA', and leaves the table as it was
C20_SynthesizedAllNA ==
  [][returned' # returned =>
       ReadsSynthesize(returned', store, store', AllCountersNA)]_vars

\* C20 amended: as above, with 'NA' in the price and unit fields
\* (currentAveragePrice, minPrice, maxPrice, unitsForSale, unitsSold), an
\* empty listings array and a listingsCount of 0
C20_SynthesizedPlaceholder ==
  [][returned' # returned =>
       ReadsSynthesize(returned', store, store', ListingsCountZero)]_vars

\* the cold items have been read while some catalog ids had a row, of them
\* a cold one, and others had none
C20_Witness ==
  /\ returned.fn = "getItemsByClassification"
  /\ returned.classification = "cold"
  /\ \E id \in DOMAIN store : store[id].classification = "cold"
  /\ ItemIds \ DOMAIN store # {}
  /\ Len(returned.items) = Cardinality(ItemIds \ DOMAIN store)
                             + Cardinality({id \in DOMAIN store :
                                              store[id].classification = "cold"})

\* the step is a GET /api/items/:id being served
Served == returned' # returned /\ returned'.fn = "GET /api/items/:id"

IsNumeral(id) == id # <<>> /\ \A k \in 1 .. Len(id) : id[k] \in DOMAIN DigitOf

\* C23: whatever the fetches did so far (failed, in flight, none yet), a
\* GET /api/items/:id is answered 200, 404 or 400, never 5xx; for a numeral
\* it is 200 with the stored record when the id has one, 200 with the
\* placeholder when the id is only in the catalog, 404 when it is in
\* neither; 400 is answered to no numeral
C23_NeverServerError ==
  [][Served =>
       LET id == returned'.id
           response == returned'.response
           n == DecimalValue(id)
       IN  /\ response.status \in {200, 400, 404}
           /\ response.status = 400 => ~IsNumeral(id)
           /\ IsNumeral(id) =>
                IF n \in DOMAIN store
                THEN /\ response.status = 200
                     /\ response.item = <<RowToItem(store[n])>>
                ELSE IF n \in ItemIds
                     THEN /\ response.status = 200
                          /\ IsPlaceholder(response.item[1], n)
                     ELSE response.status = 404]_vars

\* a stored record was served (200) in a run in which a later fetch of a
\* batch holding its id failed, while a fetch is in flight
C23_Witness ==
  /\ returned.fn = "GET /api/items/:id"
  /\ returned.response.status = 200
  /\ returned.response.item[1].lastUpdate # NullTime
  /\ InFlight # {}
  /\ \E c1, c2 \in 1 .. Len(calls) :
       /\ c1 < c2
       /\ calls[c1].settled /\ calls[c1].ok
       /\ calls[c2].settled /\ ~calls[c2].ok
       /\ returned.response.item[1].id \in SeqRange(calls[c1].batch)
       /\ returned.response.item[1].id \in SeqRange(calls[c2].batch)

\* the outcomes of safeDbOperation in which the statement has not run
DbFails == {"down", "throws", "retryThrows"}

\* C22: no call of a database function throws; when the database is not
\* there or the statement throws, the table is left as it is and the call
\* returns its default (null, an empty list, an empty set, three empty
\* groups, false for upsertItem); the loop that stores a fetched batch
\* goes on after an upsert that failed: the row of that id is as before
\* and every other id of the batch gets its new row
C22_DatabaseFailsSafe ==
  [][/\ (returned'.fn = "database" /\ now' = now) =>
          /\ ~returned'.threw
          /\ returned'.health \in DbFails =>
               /\ store' = store
               /\ returned'.ret =
                    CASE returned'.op = "upsertItem" -> FALSE
                      [] returned'.op = "getItemById" -> <<>>
                      [] returned'.op = "getAllItems" -> <<>>
                      [] returned'.op = "getItemsByClassification" -> <<>>
                      [] returned'.op = "getAllItemIds" -> {}
                      [] returned'.op = "getItemsNeedingUpdate" ->
                           [hot |-> <<>>, mild |-> <<>>, cold |-> <<>>]
     /\ (returned'.fn = "storeFetchedItems" /\ now' = now) =>
          /\ ~returned'.threw
          /\ \A id \in SeqRange(FetchedBatch) :
               IF returned'.health[id] \in DbFails
               THEN /\ id \in DOMAIN store' <=> id \in DOMAIN store
                    /\ id \in DOMAIN store => store'[id] = store[id]
               ELSE /\ id \in DOMAIN store'
                    /\ store'[id] = RowOf(id, FetchedItems[id], now)]_vars

\* the upsert of the first id of a fetched batch threw and the second id
\* of the batch was stored all the same
C22_Witness ==
  /\ returned.fn = "storeFetchedItems"
  /\ returned.health[FetchedBatch[1]] = "throws"
  /\ returned.health[FetchedBatch[2]] = "up"
  /\ FetchedBatch[1] \notin DOMAIN store
  /\ FetchedBatch[2] \in DOMAIN store
  /\ store[FetchedBatch[2]].lastUpdate = now

\* C24: when the fetch of a batch settles with a 2xx body that has neither
\* the single-item nor the multi-item shape, the await of that fetch throws
\* in updateItems (the batch is recorded as failed) and no row of an id of
\* the batch changes
C24_MalformedIsFailure ==
  [][\A p \in PassIds :
       (Wrote(p) /\ passes'[p].log[Len(passes'[p].log)].resp = Malformed) =>
         /\ ~passes'[p].log[Len(passes'[p].log)].ok
         /\ \A id \in SeqRange(passes[p].batches[passes[p].i]) :
              /\ id \in DOMAIN store' <=> id \in DOMAIN store
              /\ id \in DOMAIN store => store'[id] = store[id]]_vars

\* the six numeric fields of a response, named as the response names them
NumericFields ==
  {"listingsCount", "unitsForSale", "unitsSold",
   "currentAveragePrice", "minPrice", "maxPrice"}

\* the numeric fields of a parsed snapshot under the names of the response
Reserialize(parsed) ==
  [listingsCount |-> parsed.listingsCount,
   unitsForSale |-> parsed.unitsForSale,
   unitsSold |-> parsed.unitsSold,
   currentAveragePrice |-> parsed.prices.currentAverage,
   minPrice |-> parsed.prices.min,
   maxPrice |-> parsed.prices.max]

\* C25 as stated: every number a raw single-item response holds in one of
\* its six numeric fields is the value of that field after parseItemData
\* and re-serialization
C25_RoundTrip ==
  returned.fn = "parseItemData" =>
    \A f \in NumericFields :
      returned.itemData[f].t = "number" =>
        Reserialize(returned.parsed)[f] = returned.itemData[f]

\* C25, amended: for a response whose hasData is true, every number in one
\* of the six numeric fields comes back unchanged and a field that is
\* absent or null comes back as 0; for a response whose hasData is false
\* or absent all six fields come back as 0
C25_RoundTripWithData ==
  returned.fn = "parseItemData" =>
    \A f \in NumericFields :
      Reserialize(returned.parsed)[f] =
        IF returned.itemData.hasData = JsTrue /\ returned.itemData[f].t = "number"
        THEN returned.itemData[f]
        ELSE JsNum(0)

\* a response with data and six numbers, minPrice below maxPrice, was
\* parsed and each number came back
C25_Witness ==
  /\ returned.fn = "parseItemData"
  /\ returned.itemData.hasData = JsTrue
  /\ \A f \in NumericFields :
       /\ returned.itemData[f].t = "number"
       /\ returned.itemData[f].n > 0
       /\ Reserialize(returned.parsed)[f] = returned.itemData[f]
  /\ returned.itemData.minPrice.n < returned.itemData.maxPrice.n

\* the request of frame k had to wait for a timer set after the call
\* before it settled
Delayed(k) == lastCall.endAt # NullTime /\ frames[k].wakeAt > lastCall.endAt

\* C26 as stated: a request that had to wait for the call before it is
\* started at most 1500 ms after that call settled
C26_StartedWithinDelay ==
  \A k \in InFlight :
    Delayed(k) =>
      frames[k].startedAt <=
        lastCall.endAt + BASE_DELAY_BETWEEN_CALLS_MS + RANDOM_DELAY_MAX_MS

\* C26, amended: the delay the queue requires after a call is at least
\* 1000 ms and less than 1500 ms: the timer a waiting request is started
\* by is set to a time in that range after the moment the call before it
\* settled, and the request is started when the timer has fired, not
\* before that time
C26_DelayWithinBounds ==
  /\ \A k \in 1 .. Len(frames) :
       frames[k].pc = "delay" =>
         /\ frames[k].wakeAt >=
              requestQueue.lastRequestTime + BASE_DELAY_BETWEEN_CALLS_MS
         /\ frames[k].wakeAt <
              requestQueue.lastRequestTime + BASE_DELAY_BETWEEN_CALLS_MS
                + RANDOM_DELAY_MAX_MS
         /\ lastCall.endAt # NullTime =>
              requestQueue.lastRequestTime = lastCall.endAt
  /\ \A k \in InFlight :
       Delayed(k) =>
         /\ frames[k].startedAt >= frames[k].wakeAt
         /\ frames[k].wakeAt >= lastCall.endAt + BASE_DELAY_BETWEEN_CALLS_MS
         /\ frames[k].wakeAt <
              lastCall.endAt + BASE_DELAY_BETWEEN_CALLS_MS + RANDOM_DELAY_MAX_MS

\* a request that waited with the largest random extra is in flight
C26_Witness ==
  \E k \in InFlight :
    /\ Delayed(k)
    /\ frames[k].wakeAt =
         lastCall.endAt + BASE_DELAY_BETWEEN_CALLS_MS + RANDOM_DELAY_MAX_MS - 1

\* C27: when the request of batch k+1 of an updateItems call has been
\* enqueued, the fetch of its batch k has settled and the call has gone
\* through batch k; if that fetch succeeded, every id of batch k that the
\* response holds has a row written then or later
C27_BatchesInSequence ==
  \A j \in 1 .. Len(enqueued) :
    LET p == enqueued[j][1]
        k == enqueued[j][2] - 1
    IN  k >= 1 =>
          /\ Len(passes[p].log) >= k
          /\ CallOf(p, k) # 0
          /\ calls[CallOf(p, k)].settled
          /\ \A j0 \in 1 .. Len(enqueued) : enqueued[j0] = <<p, k>> => j0 < j
          /\ passes[p].log[k].ok =>
               \A id \in Covered(p, k) :
                 /\ id \in DOMAIN store
                 /\ store[id].lastUpdate >= passes[p].log[k].at

\* the request of the second batch of a call is waiting or in flight and
\* the ids of its first batch, which was answered, have their rows
C27_Witness ==
  \E p \in PassIds :
    /\ passes[p].st = "active"
    /\ Len(passes[p].log) = 1
    /\ passes[p].log[1].ok
    /\ Covered(p, 1) = SeqRange(passes[p].batches[1])
    /\ \E j \in 1 .. Len(enqueued) : enqueued[j] = <<p, 2>>
    /\ \A c \in 1 .. Len(calls) : calls[c].req = <<p, 2>> => ~calls[c].settled

\* the ids of the batch a pass has just gone through that its response,
\* a successful one, does not hold
SkippedIds(p) ==
  IF passes'[p].log[Len(passes'[p].log)].ok
  THEN SeqRange(passes[p].batches[passes[p].i]) \ DOMAIN WrittenItems(p)
  ELSE {}

\* C28: when a batch was fetched successfully and its response lacks some
\* ids of the batch, the batch is not recorded as failed and the call goes
\* on to its next batch; each id that is lacking keeps its row, or stays
\* without one; each id of the batch that the response holds gets the row
\* made from its item
C28_MissingIdSkipped ==
  [][\A p \in PassIds :
       (Wrote(p) /\ SkippedIds(p) # {}) =>
         /\ passes'[p].log[Len(passes'[p].log)].ok
         /\ passes'[p].i = passes[p].i + 1
         /\ \A id \in SkippedIds(p) :
              /\ id \in DOMAIN store' <=> id \in DOMAIN store
              /\ id \in DOMAIN store => store'[id] = store[id]
         /\ \A id \in SeqRange(passes[p].batches[passes[p].i]) \ SkippedIds(p) :
              /\ id \in DOMAIN store'
              /\ store'[id].lastUpdate = now
              /\ store'[id].marketData.unitsSold =
                   WrittenItems(p)[id].unitsSold]_vars

\* the first batch of a call was answered without its first id: that id
\* has no row, the other ids of the batch have theirs, and the call is at
\* its second batch
C28_Witness ==
  \E p \in PassIds :
    /\ Len(passes[p].log) = 1
    /\ passes[p].log[1].ok
    /\ passes[p].i = 2
    /\ Covered(p, 1) = SeqRange(passes[p].batches[1]) \ {passes[p].batches[1][1]}
    /\ Covered(p, 1) # {}
    /\ passes[p].batches[1][1] \notin DOMAIN store
    /\ Covered(p, 1) \subseteq DOMAIN store

\* pass p had been started when the thunk of request <<p1, k>> settled: its
\* first request was enqueued before the request updateItems enqueued for
\* batch k+1 of pass p1 when it resumed from the await of batch k
StartedBefore(p, p1, k) ==
  \E j1, j2 \in 1 .. Len(enqueued) :
    /\ j2 < j1
    /\ enqueued[j2] = <<p, 1>>
    /\ enqueued[j1] = <<p1, k + 1>>

\* C29: no batch of an updateItems call is fetched twice, and a thunk
\* started after a failed one that asks for an id of the failed one
\* belongs to a later pass, one the timer started after the failure
C29_RetriedOnlyByLaterPass ==
  /\ \A i, j \in 1 .. Len(enqueued) : enqueued[i] = enqueued[j] => i = j
  /\ \A c1, c2 \in 1 .. Len(calls) :
       ( /\ c1 < c2
         /\ calls[c1].settled
         /\ ~calls[c1].ok
         /\ SeqRange(calls[c1].batch) \cap SeqRange(calls[c2].batch) # {} ) =>
           /\ calls[c2].req[1] > calls[c1].req[1]
           /\ ~StartedBefore(calls[c2].req[1], calls[c1].req[1], calls[c1].req[2])

\* the setInterval callback runs in this step
Ticked == nextTickAt' # nextTickAt

\* id is due: it has no row, or the nextUpdate of its row has come
DueNow(id) ==
  id \in DOMAIN store =>
    /\ store[id].nextUpdate # NullTime
    /\ store[id].nextUpdate <= now
    /\ store[id].classification \in {"hot", "mild", "cold"}

C31_TierFromSnapshotOnly ==
  [][/\ DOMAIN store \subseteq DOMAIN store'
     /\ store' # store =>
          /\ returned'.fn = "processAndStoreItem"
          /\ returned'.before = TierOf(store, returned'.itemID)
          /\ TierOf(store', returned'.itemID) = classifyItem(returned'.marketInfo)
     /\ \A itemID \in RefreshIds, tier \in {"cold", "mild", "hot"} :
          \E marketInfo \in RefreshInfos :
            TierOf(processAndStoreItem(store, itemID, marketInfo, now), itemID)
              = tier]_vars

\* a hot record has been made cold by one refresh, a day after it was
\* written
C31_Witness ==
  /\ returned.fn = "processAndStoreItem"
  /\ returned.before = "hot"
  /\ TierOf(store, returned.itemID) = "cold"
  /\ store[returned.itemID].lastUpdate >= StartTime + COLD_UPDATE_INTERVAL

\* pass p has returned after it got an answer (or a refusal) for every one
\* of its batches
Returned(p) ==
  /\ passes[p].st = "done"
  /\ Len(passes[p].log) = Len(passes[p].batches)
  /\ \A k \in 1 .. Len(passes[p].batches) :
       CallOf(p, k) # 0 /\ calls[CallOf(p, k)].settled

\* C32: when timers fire and every upstream call settles, every updateItems
\* call that was started (by the startup population or by the timer)
\* returns, and when it does each of its batches has been fetched
C32_PassesReturn ==
  \A p \in PassIds : (passes[p].st = "active") ~> Returned(p)

\* two overlapping calls have both returned, one of them after its first
\* batch had failed
C32_Witness ==
  /\ \A p \in PassIds : Returned(p)
  /\ \E c \in 1 .. Len(calls) - 1 : calls[c].req[1] > calls[c + 1].req[1]
  /\ \E p \in PassIds :
       /\ Len(passes[p].batches) = 2
       /\ ~passes[p].log[1].ok

\* C33: nothing but its own settlement ends the wait for a thunk: in every
\* step in which the thunk in flight stays unsettled, however much time
\* passes, the drain loop stays where it is, no other thunk is started,
\* the requests behind it stay pending (new ones may join them), no pass
\* gets an answer and no record is written; so a thunk that never settles
\* stalls every later request for ever
C33_StalledBehindUnsettled ==
  [][\A c \in 1 .. Len(calls) :
       (~calls[c].settled /\ ~calls'[c].settled) =>
         /\ c = Len(calls)
         /\ calls' = calls
         /\ frames' = frames
         /\ requestQueue'.processing
         /\ requestQueue'.lastRequestTime = requestQueue.lastRequestTime
         /\ Len(requestQueue'.queue) >= Len(requestQueue.queue)
         /\ SubSeq(requestQueue'.queue, 1, Len(requestQueue.queue))
              = requestQueue.queue
         /\ \A p \in PassIds : passes'[p].log = passes[p].log
         /\ \A p \in ActivePasses : passes'[p] = passes[p]
         /\ store' = store]_vars

\* a thunk has been in flight for a day; behind it the first request of a
\* pass that the timer started since is pending, and nothing was stored
C33_Witness ==
  \E k \in InFlight :
    /\ now >= frames[k].startedAt + COLD_UPDATE_INTERVAL
    /\ ~calls[Len(calls)].settled
    /\ Len(requestQueue.queue) >= 1
    /\ Head(requestQueue.queue).req[1] # frames[k].entry.req[1]
    /\ Cardinality(ActivePasses) = 2
    /\ store = EmptyMap

\* C34 as stated: classifyItem returns cold for every market data whose
\* unitsSold is absent or is not of type number
C34_NonNumberIsCold ==
  (returned.fn = "classifyItem" /\ returned.marketData.unitsSold.t # "number")
    => returned.classification = "cold"

\* unitsSold is absent, null or a string that parseFloat makes no number of
NonNumeric(v) ==
  \/ v.t \in {"undefined", "null"}
  \/ v.t = "string" /\ v.n = NaNValue

\* C34 as amended: classifyItem returns cold for every market data whose
\* unitsSold is absent, null or a string that is not numeric (its velocity
\* is 0), whatever hasData holds; a numeric string is classified as the
\* number it spells
C34_NonNumericIsCold ==
  returned.fn = "classifyItem" =>
    /\ NonNumeric(returned.marketData.unitsSold)
         => returned.classification = "cold"
    /\ (returned.marketData.unitsSold.t = "string"
          /\ ~NonNumeric(returned.marketData.unitsSold))
         => returned.classification =
              classifyItem([returned.marketData EXCEPT
                              !.unitsSold = JsNum(returned.marketData.unitsSold.n)])

\* classifyItem has answered cold for market data that has data and 'NA'
\* as its unitsSold
C34_Witness ==
  /\ returned.fn = "classifyItem"
  /\ returned.marketData.hasData = JsTrue
  /\ returned.marketData.unitsSold = JsNA
  /\ returned.classification = "cold"

\* the n-th request that was enqueued has been started and has settled
Served35(n) ==
  /\ Len(calls) >= n
  /\ calls[n].req = enqueued[n]
  /\ calls[n].settled

\* C35: when timers fire and every thunk settles, every request that is
\* enqueued, at whatever point of the drain loop, is started and settled
\* in the end; and at any time at which no drain loop is active
\* (processing is false) no request is pending
C35_NoLostWakeup ==
  /\ [](~requestQueue.processing =>
          /\ requestQueue.queue = <<>>
          /\ frames = <<>>
          /\ \A n \in 1 .. Len(enqueued) : Served35(n))
  /\ \A n \in 1 .. MaxRequests : (Len(enqueued) >= n) ~> Served35(n)

\* a request that was enqueued while the loop was busy is in flight after
\* the first one settled, and another one is pending behind it
C35_Witness ==
  /\ Len(calls) = 2
  /\ calls[1].settled
  /\ \E k \in InFlight : frames[k].behind >= 1
  /\ Len(requestQueue.queue) >= 1

\* the requests the suspended drain loops have taken from the queue and
\* not yet invoked
Shifted ==
  Flatten([k \in 1 .. Len(frames) |->
             IF frames[k].pc = "delay" THEN <<frames[k].entry.req>> ELSE <<>>])

\* C36: whatever the callers and the drain loop do in between, the requests
\* enqueued so far are, in their order, those whose thunk was invoked, then
\* the one the loop has taken and is delaying, then those pending in the
\* queue: none is lost and none is invoked twice; a thunk is in flight
\* exactly while its call is unsettled; and the outcome a promise was
\* settled with is never changed
C36_InvokedOnceNeverDropped ==
  /\ [](/\ enqueued
            = [c \in 1 .. Len(calls) |-> calls[c].req]
                \o Shifted
                \o [q \in 1 .. Len(requestQueue.queue) |->
                      requestQueue.queue[q].req]
         /\ \A i, j \in 1 .. Len(enqueued) : enqueued[i] = enqueued[j] => i = j
         /\ \A c \in 1 .. Len(calls) :
              ~calls[c].settled <=>
                \E k \in InFlight : frames[k].entry.req = calls[c].req)
  /\ [][\A c \in 1 .. Len(calls) :
          calls[c].settled => calls'[c] = calls[c]]_vars

\* requests of both callers have been enqueued in turn; two thunks have
\* settled, one of them with a failure, and the loop is delaying the third
C36_Witness ==
  /\ Len(enqueued) = 3
  /\ enqueued[1][1] # enqueued[2][1]
  /\ Len(calls) = 2
  /\ calls[1].settled /\ calls[2].settled
  /\ ~calls[1].ok
  /\ Shifted = <<enqueued[3]>>

\* every batch of pass p has been answered, each with a failure
AllFailed(p) ==
  /\ Len(passes[p].batches) > 0
  /\ Len(passes[p].log) = Len(passes[p].batches)
  /\ \A k \in 1 .. Len(passes[p].log) : ~passes[p].log[k].ok

\* C37: a call of updateItems (from initializeItems or from the timer) is
\* never ended by the failure of a batch: after a failure it is active on
\* its next batch or has returned, and when every one of its batches has
\* failed it has returned normally
C37_NeverRejects ==
  \A p \in PassIds :
    /\ passes[p].st \in {"unused", "active", "done"}
    /\ passes[p].st = "active" =>
         /\ Len(passes[p].log) < Len(passes[p].batches)
         /\ passes[p].i = Len(passes[p].log) + 1
         /\ <<p, passes[p].i>> \in SeqRange(enqueued)
    /\ AllFailed(p) => passes[p].st = "done"

\* the startup call and a call started by the timer have both returned
\* after each of their batches had failed, and no record was written
C37_Witness ==
  /\ \A p \in PassIds : AllFailed(p) /\ passes[p].st = "done"
  /\ Len(passes[1].batches) = 2
  /\ store = EmptyMap

\* C38: every record of the table has one of the classifications cold, mild
\* and hot, and every record whose stored market data has hasData false is
\* classified cold
C38_StoredNoDataIsCold ==
  \A id \in DOMAIN store :
    /\ store[id].classification \in {"cold", "mild", "hot"}
    /\ store[id].marketData.hasData = JsFalse
         => store[id].classification = "cold"

\* a request for id is outstanding: id is in a batch of an active call that
\* has not been answered yet
Outstanding(id) ==
  \E p \in ActivePasses :
    \E k \in (Len(passes[p].log) + 1) .. Len(passes[p].batches) :
      id \in SeqRange(passes[p].batches[k])

\* a successful response to a batch with id in it held an item for id
SuccessFor(id) ==
  \E p \in PassIds : \E k \in 1 .. Len(passes[p].log) : id \in Covered(p, k)

\* C39: every run of the timer callback starts a call whose list holds
\* every catalog id that has no record then; when timers fire and thunks
\* settle, a request for an id without a record does not stay outstanding
\* (it is answered, with or without a record as the result); and from the
\* moment a successful response holds the id, the id has a record
C39_MissingIdRefetched ==
  /\ [][Ticked =>
          \A id \in ItemIds \ DOMAIN store :
            \E p \in PassIds :
              /\ passes[p].st = "unused"
              /\ passes'[p].st = "active"
              /\ id \in SeqRange(passes'[p].ids)
              /\ \E k \in 1 .. Len(passes'[p].batches) :
                   id \in SeqRange(passes'[p].batches[k])]_vars
  /\ \A id \in ItemIds :
       (Outstanding(id) /\ id \notin DOMAIN store)
         ~> (id \in DOMAIN store \/ ~Outstanding(id))
  /\ [](\A id \in ItemIds : SuccessFor(id) => id \in DOMAIN store)

\* an id got no record from the startup call, whose batch with the id
\* failed; the call the timer started held the id and has stored it
C39_Witness ==
  \E id \in DOMAIN store :
    /\ passes[1].st = "done"
    /\ \E k \in 1 .. Len(passes[1].batches) :
         /\ id \in SeqRange(passes[1].batches[k])
         /\ ~passes[1].log[k].ok
    /\ \E k \in 1 .. Len(passes[2].log) :
         /\ id \in Covered(2, k)
         /\ store[id].lastUpdate = passes[2].log[k].at

\* the ids of a list of items
IdsOf(items) == {items[k].id : k \in 1 .. Len(items)}

\* C40: in every state the refreshes lead to from the empty table, the list
\* of getAllItems holds each catalog id once; each of its items is in the
\* list of getItemsByClassification of its classification and in neither
\* of the other two; the three lists hold no id twice and no id besides
\* the catalog's; and /api/stats reports hot + mild + cold = total = the
\* number of catalog entries
C40_TiersPartition ==
  LET allItems == getAllItems(store, now)
      tier == [c \in {"hot", "mild", "cold"} |->
                 getItemsByClassification(store, c, now)]
      stats == getStatsRoute(store, now).stats
  IN  /\ Len(allItems) = Len(itemList)
      /\ \A k \in 1 .. Len(allItems) :
           /\ allItems[k].id = itemList[k]
           /\ allItems[k].classification \in DOMAIN tier
           /\ \A c \in DOMAIN tier :
                (allItems[k] \in SeqRange(tier[c]))
                  <=> (c = allItems[k].classification)
           /\ \A c \in DOMAIN tier :
                (allItems[k].id \in IdsOf(tier[c]))
                  <=> (c = allItems[k].classification)
      /\ \A c \in DOMAIN tier :
           /\ Cardinality(IdsOf(tier[c])) = Len(tier[c])
           /\ IdsOf(tier[c]) \subseteq IdsOf(allItems)
      /\ stats.hot + stats.mild + stats.cold = stats.total
      /\ stats.total = Len(itemList)

\* two calls have stored records of all three tiers, one record was made
\* hot by the second call, and an id is still without a record
C40_Witness ==
  /\ {store[id].classification : id \in DOMAIN store} = {"hot", "mild", "cold"}
  /\ ItemIds \ DOMAIN store # {}
  /\ getStatsRoute(store, now).stats.hot >= 1
  /\ getStatsRoute(store, now).stats.mild >= 1
  /\ getStatsRoute(store, now).stats.cold >= 2
  /\ \E id \in DOMAIN store : \E k \in 1 .. Len(passes[2].log) :
       /\ id \in Covered(2, k)
       /\ store[id].classification = "hot"
       /\ \E k1 \in 1 .. Len(passes[1].log) :
            /\ id \in Covered(1, k1)
            /\ RowOf(id, ItemsToProcess(passes[1].log[k1].resp)[id],
                     passes[1].log[k1].at).classification # "hot"
====
